---- MODULE Spec2Model ----
(***************************************************************************)
(* A model of marko, a terminal markdown editor with a live preview.       *)
(*                                                                         *)
(* Three state machines share this module:                                 *)
(*   SpecTable   the table column-width negotiation (table_format.rs and   *)
(*               renderer.rs), a pure computation applied to drawn inputs; *)
(*   SpecImage   the preview's asynchronous image pipeline (preview.rs,    *)
(*               clipboard.rs): render, tick, worker threads, channel;     *)
(*   SpecEditor  the editor buffer: keys, save, reflow, the modified and   *)
(*               highlight-dirty flags and the syntax/theme warm-load.     *)
(* Every specification initialises all variables; the actions of one       *)
(* leave the variables of the others unchanged.                            *)
(***************************************************************************)
EXTENDS Integers, Sequences, FiniteSets, TLC

(***************************************************************************)
(* Generic helpers.                                                        *)
(***************************************************************************)
Max(a, b) == IF a >= b THEN a ELSE b

Min(a, b) == IF a <= b THEN a ELSE b

\* usize::saturating_sub
SatSub(a, b) == IF a >= b THEN a - b ELSE 0

RECURSIVE SumSeq(_)
SumSeq(s) == IF s = <<>> THEN 0 ELSE Head(s) + SumSeq(Tail(s))

\* (x as f64 * y as f64 / z as f64).floor() as usize, exact for the small
\* non-negative integers of the model (z > 0).
FloorMulDiv(x, y, z) == (x * y) \div z

\* (x as f64 * y as f64 / z as f64).round() as usize: f64::round rounds half
\* away from zero, i.e. floor(q + 1/2) for q >= 0.
RoundMulDiv(x, y, z) == (2 * x * y + z) \div (2 * z)

(***************************************************************************)
(* Bounds of the table model.                                              *)
(***************************************************************************)
MaxCols == 4

MaxNatural == 5

MaxTermWidth == 28

MaxBqDepth == 1

\* The minimum column width: `min_col` in shrink_widths and render_table, and
\* the floor applied to the natural widths.
MIN_COL == 3

\* Image pipeline: distinct local image files and screenshot file names,
\* images in the document, clipboard pastes, and the terminal sizes tried.
NumLocalImages == 1
NumShotNames == 1
MaxDocImages == 1
MaxPastes == 1
MaxTermCols == 21
MaxTermRows == 18

\* Editor: editing events per run, and the terminal widths tried (the gutter
\* takes 3 columns of them).
MaxEdits == 1
MaxEdCols == 6

SCROLL_LINES == 3
WRAP_LIMIT == 500
MAX_WIDTH == 120

VARIABLES
    \* ---- table negotiation ----
    tbl_natural,        \* natural column widths (each >= MIN_COL)
    tbl_width,          \* the width handed to format_tables / render_table
    tbl_bq,             \* blockquote depth of the table (renderer only)
    overflow_checks,    \* build profile: TRUE = arithmetic overflow panics
    tbl_fn,             \* which computation ran: "none" or its name
    tbl_out,            \* its outcome: [panicked, widths]
    \* ---- the application's main loop (mod.rs, main.rs, render.rs) ----
    loop_pc,            \* run_app's position: "draw" or "events"
    mode,               \* Mode::Editor / Mode::Preview
    term,               \* the terminal's size [width, height] (frame.area())
    content_area,       \* App.content_area, the Rect of the last render
    viewport_height,    \* App.viewport_height
    \* ---- PreviewState (preview.rs) and its worker threads ----
    doc,                \* the image URLs the buffer references, in order
    disk,               \* image files that exist on disk
    scroll_offset,      \* PreviewState.scroll_offset
    content_height,     \* PreviewState.content_height
    file_cache,         \* URL -> path, a set of <<url, path>> entries
    image_decode_cache, \* path -> "img" | "none", a set of entries
    resize_cache,       \* path -> <<target_w, target_h>>, a set of entries
    last_area,          \* PreviewState.last_area
    image_rx,           \* the channel: DecodedImage messages not yet drained
    decoding_in_flight, \* PreviewState.decoding_in_flight
    picker,             \* TRUE iff the terminal has a graphics protocol
    protocol_cache,     \* paths holding a StatefulProtocol
    last_gfx_paths,     \* PreviewState.last_gfx_paths
    render_workers,     \* decode threads spawned by render, not yet sent
    paste_workers,      \* clipboard-image threads, not yet sent
    pastes,             \* number of image pastes so far
    \* ---- observations of the latest preview render call ----
    \* ---- the editor (App in mod.rs) and the syntect statics ----
    textarea,           \* App.textarea: [lines, cursor, history, index]
    modified,           \* App.modified
    original_content,   \* App.original_content
    wrapped_original,   \* App.wrapped_original
    last_wrap_width,    \* App.last_wrap_width
    should_quit,        \* App.should_quit
    file_content,       \* the content of the file at file_path
    write_failed,       \* TRUE once a std::fs::write of the file failed
    code_fence_regions, \* App.code_fence_regions
    code_fence_highlights, \* App.code_fence_highlights
    code_fence_dirty,   \* App.code_fence_dirty
    syntax_set,         \* SYNTAX_SET: "uninit", "by_warm", "by_render", "ready"
    theme_set,          \* THEME_SET, likewise
    warm_pc,            \* the thread of ensure_loaded: "syntax_set",
                        \* "theme_set" or "done"
    overlay,            \* the highlight overlay of the latest editor frame:
                        \* [drawn, regions, highlights, lines]
    edits,              \* number of editing events so far
    \* ---- render_markdown applied to a document that is one table ----
    tbl_body_rows,      \* the number of body rows of the table
    tbl_lines,          \* RenderedMarkdown.text.lines: [kind, width] each
    \* ---- hard_wrap applied to one content ----
    wrap_content,       \* the content handed to hard_wrap
    wrap_width,         \* the width handed to hard_wrap
    wrap_out,           \* [done, text, pieces]: the String hard_wrap returned
                        \* and, per input line, the lines it pushed for it
    \* ---- the help modal and the rename input (mod.rs, rename.rs) ----
    show_help,          \* the help modal is shown
    renaming,           \* the rename input is active
    rename_buf,         \* the rename input's text
    rename_cursor,      \* the cursor's offset in rename_buf
    app_file_path,      \* the file's path below the directory it was
                        \* opened in, as characters
    last_key,           \* the latest key press the help modal swallowed:
                        \* [code, help], "none" before the first
    \* ---- what is drawn (render.rs, preview.rs) ----
    status_message,     \* App.status_message
    frame_buf,          \* the latest frame render_frame drew: [drawn, cells,
                        \* expired, ready, idle, after]: the cells of its
                        \* buffer, whether its tick cleared the status
                        \* message, whether the syntect databases were loaded
                        \* when it began, whether nothing had happened since
                        \* the frame before it, and the application's state
                        \* when it returned
    link_lines,         \* a rendered document: per line its cells, 0 for a
                        \* cell without link style and k for a cell of the
                        \* text of the k-th link
    link_painted,       \* the rows of the preview's area as painted
    click_links,        \* PreviewState.click_links
    \* ---- render_markdown as a function of the parser's events ----
    md_events,          \* the events of the parser, in order
    md_width,           \* the width handed to render_markdown
    md_out,             \* [done, lines]: the lines it returned
    last_render         \* what the latest preview render did:
                        \* [area_changed, proto_before, proto_after, created,
                        \*  halfblock, job_paths, jobs, resolved, retried]:
                        \* whether its area differed from last_area, the
                        \* protocol entries it found, left and created, its
                        \* half-block draws, the paths of its jobs, the URLs
                        \* it resolved, and those of them that the render
                        \* before it had resolved too

tblVars == <<tbl_natural, tbl_width, tbl_bq, overflow_checks, tbl_fn, tbl_out,
             tbl_body_rows, tbl_lines>>

appVars == <<loop_pc, mode, term, content_area, viewport_height>>

imgVars == <<doc, disk, scroll_offset, content_height, file_cache,
             image_decode_cache, resize_cache, last_area, image_rx,
             decoding_in_flight, picker, protocol_cache, last_gfx_paths,
             render_workers, paste_workers, pastes, last_render>>

edVars == <<textarea, modified, original_content, wrapped_original,
            last_wrap_width, should_quit, file_content, write_failed,
            code_fence_regions, code_fence_highlights, code_fence_dirty,
            syntax_set, theme_set, warm_pc, overlay, edits>>

wrapVars == <<wrap_content, wrap_width, wrap_out>>

modalVars == <<show_help, renaming, rename_buf, rename_cursor, app_file_path,
               last_key>>

viewVars == <<status_message, frame_buf, link_lines, link_painted, click_links>>

mdVars == <<md_events, md_width, md_out>>

vars == <<tblVars, appVars, imgVars, edVars, wrapVars, modalVars, viewVars, mdVars>>

(***************************************************************************)
(* Table layout negotiator.                                                *)
(*                                                                         *)
(* A usize that wrapped below zero in a build without overflow checks is   *)
(* kept as the negative integer v that stands for 2^64 + v; `wrapped`      *)
(* records that this happened.  With overflow checks the same subtraction  *)
(* panics.                                                                 *)
(***************************************************************************)
NoOutcome == [panicked |-> FALSE, wrapped |-> FALSE, widths |-> <<>>]

MaxBodyRows == 2

Outcome(ws) == [panicked |-> FALSE, wrapped |-> FALSE, widths |-> ws]

\* distribute_widths, the shares of the columns before the last one:
\* round(extra * natural[i] / natural_total).
RECURSIVE DistributeShares(_, _, _, _)
DistributeShares(natural, i, extra, natural_total) ==
    IF i >= Len(natural) THEN <<>>
    ELSE <<RoundMulDiv(extra, natural[i], natural_total)>>
         \o DistributeShares(natural, i + 1, extra, natural_total)

\* distribute_widths: every column but the last gets its rounded share, the
\* last gets `extra - distributed`, a usize subtraction.
distribute_widths(natural, available, checked) ==
    LET n == Len(natural)
        natural_total == SumSeq(natural)
        extra == available - natural_total
        shares == DistributeShares(natural, 1, extra, natural_total)
        distributed == SumSeq(shares)
        lastw == natural[n] + (extra - distributed)
        ws == [i \in 1..n |-> IF i = n THEN lastw ELSE natural[i] + shares[i]]
    IN  IF natural_total = 0 \/ natural_total >= available
        THEN Outcome(natural)
        ELSE IF distributed > extra /\ checked
        THEN [panicked |-> TRUE, wrapped |-> FALSE, widths |-> <<>>]
        ELSE [panicked |-> FALSE, wrapped |-> lastw < 0, widths |-> ws]

\* shrink_widths, the widths of the columns before the last one:
\* max(floor(available * natural[i] / natural_total), min_col).
RECURSIVE ShrinkShares(_, _, _, _)
ShrinkShares(natural, i, available, natural_total) ==
    IF i >= Len(natural) THEN <<>>
    ELSE <<Max(FloorMulDiv(available, natural[i], natural_total), MIN_COL)>>
         \o ShrinkShares(natural, i + 1, available, natural_total)

\* shrink_widths: the last column gets max(available - used, min_col), with a
\* saturating subtraction.
shrink_widths(natural, available) ==
    LET n == Len(natural)
        natural_total == SumSeq(natural)
        shares == ShrinkShares(natural, 1, available, natural_total)
        used == SumSeq(shares)
    IN  IF natural_total = 0 THEN Outcome(natural)
        ELSE Outcome([i \in 1..n |->
                IF i = n THEN Max(SatSub(available, used), MIN_COL) ELSE shares[i]])

\* border_overhead = (num_cols + 1) + (num_cols * 2)
border_overhead(num_cols) == (num_cols + 1) + (num_cols * 2)

\* try_format_table: the column widths chosen for a table `terminal_width` wide.
format_col_widths(natural, terminal_width, checked) ==
    LET available == SatSub(terminal_width, border_overhead(Len(natural)))
        natural_total == SumSeq(natural)
    IN  IF natural_total > 0 /\ available > natural_total
        THEN distribute_widths(natural, available, checked)
        ELSE IF natural_total > available /\ available > 0
        THEN shrink_widths(natural, available)
        ELSE Outcome(natural)

\* render_table's expand loop, the shares of the columns before the last one:
\* round(extra * col_widths[i] / natural_total), or extra / len when the
\* natural total is 0.  col_widths[i] is still the natural width when its
\* share is computed.
RECURSIVE RenderExpandShares(_, _, _, _)
RenderExpandShares(col_widths, i, extra, natural_total) ==
    IF i >= Len(col_widths) THEN <<>>
    ELSE <<IF natural_total > 0
           THEN RoundMulDiv(extra, col_widths[i], natural_total)
           ELSE extra \div Len(col_widths)>>
         \o RenderExpandShares(col_widths, i + 1, extra, natural_total)

\* The shrink loop with the quotient rounded to the nearest integer.
RECURSIVE RenderShrinkSharesRounded(_, _, _, _)
RenderShrinkSharesRounded(col_widths, i, available, natural_total) ==
    IF i >= Len(col_widths) THEN <<>>
    ELSE <<Max(RoundMulDiv(available, col_widths[i], natural_total), MIN_COL)>>
         \o RenderShrinkSharesRounded(col_widths, i + 1, available, natural_total)

\* render_table's shrink loop for the columns before the last one:
\* max(floor(available * col_widths[i] / natural_total), min_col).
RECURSIVE RenderShrinkShares(_, _, _, _)
RenderShrinkShares(col_widths, i, available, natural_total) ==
    IF i >= Len(col_widths) THEN <<>>
    ELSE <<Max(FloorMulDiv(available, col_widths[i], natural_total), MIN_COL)>>
         \o RenderShrinkShares(col_widths, i + 1, available, natural_total)

\* render_table: the column widths chosen in the preview for `width` columns
\* at blockquote depth bq_depth.
render_col_widths(col_widths, width, bq_depth, checked) ==
    LET n == Len(col_widths)
        effective_width == SatSub(width, bq_depth * 2)
        border_chars == n + 1 + n * 2
        available == SatSub(effective_width, border_chars)
        natural_total == SumSeq(col_widths)
        extra == available - natural_total
        grow == RenderExpandShares(col_widths, 1, extra, natural_total)
        distributed == SumSeq(grow)
        lastw == col_widths[n] + (extra - distributed)
        cut == RenderShrinkShares(col_widths, 1, available, natural_total)
        shrunk == SumSeq(cut)
    IN  IF available > natural_total
        THEN IF distributed > extra /\ checked
             THEN [panicked |-> TRUE, wrapped |-> FALSE, widths |-> <<>>]
             ELSE [panicked |-> FALSE, wrapped |-> lastw < 0,
                   widths |-> [i \in 1..n |->
                       IF i = n THEN lastw ELSE col_widths[i] + grow[i]]]
        ELSE IF natural_total > available /\ available > 0
        THEN Outcome([i \in 1..n |->
                 IF i = n THEN Max(SatSub(available, shrunk), MIN_COL) ELSE cut[i]])
        ELSE Outcome(col_widths)

\* The available content width each caller derives from its width argument.
FormatAvailable == SatSub(tbl_width, border_overhead(Len(tbl_natural)))

RenderAvailable ==
    SatSub(SatSub(tbl_width, tbl_bq * 2), border_overhead(Len(tbl_natural)))

RECURSIVE SeqsUpTo(_, _)
SeqsUpTo(S, n) ==
    IF n = 0 THEN {<<>>}
    ELSE LET shorter == SeqsUpTo(S, n - 1)
         IN  shorter \cup {Append(s, x) : s \in {t \in shorter : Len(t) = n - 1}, x \in S}

NaturalInputs == SeqsUpTo(MIN_COL..MaxNatural, MaxCols) \ {<<>>}

(***************************************************************************)
(* Image pipeline of the preview (components/preview.rs) and the clipboard *)
(* image paste (app/clipboard.rs).                                         *)
(*                                                                         *)
(* A HashMap is the set of its <<key, value>> entries; an Option is the    *)
(* set of at most one value.  A path is the URL joined to the document's   *)
(* directory; a decoded image is "img" and a failed decode "none".         *)
(***************************************************************************)
Has(m, k) == \E e \in m : e[1] = k

Get(m, k) == (CHOOSE e \in m : e[1] = k)[2]

Put(m, k, v) == {e \in m : e[1] # k} \cup {<<k, v>>}

Del(m, k) == {e \in m : e[1] # k}

U16(x) == x % 65536

LocalUrls == {<<"img", k>> : k \in 1..NumLocalImages}

\* ".marko/images/screenshot-{secs}.png": one URL per second of the clock.
ShotUrls == {<<"shot", t>> : t \in 1..NumShotNames}

Urls == LocalUrls \cup ShotUrls

PathOf(url) == <<"path", url>>

Paths == {PathOf(u) : u \in Urls}

\* resolve_image_path for a local URL: Some(candidate) iff the file exists.
resolve_image_path(url, files) ==
    IF PathOf(url) \in files THEN {PathOf(url)} ELSE {}

\* render_markdown, TagEnd::Image: the placeholder is padded to 15 lines.
target_height == 15

\* render_markdown for a document of image paragraphs: each image takes
\* target_height lines and its paragraph ends with one blank line.
image_infos(d) ==
    [i \in 1..Len(d) |->
        [url |-> d[i],
         start_line |-> (i - 1) * (target_height + 1),
         line_count |-> target_height]]

rendered_lines(d) == Len(d) * (target_height + 1)

Rect(x, y, w, h) == [x |-> x, y |-> y, width |-> w, height |-> h]

\* App::render: the width is capped and centred, and the content is the
\* third of five vertical chunks (1, 1, Min(1), 1, 1).
chunks2(full) ==
    LET capped_width == Min(full.width, MAX_WIDTH)
        x_offset == (full.width - capped_width) \div 2
    IN  Rect(x_offset, 2, capped_width, full.height - 4)

\* A variant of the drain loop that stores the result and keeps the
\* entries derived from the path's earlier result.
PollOneKeeping(st, msg) ==
    [st EXCEPT !.decoding_in_flight = @ \ {msg.path},
               !.image_decode_cache = Put(@, msg.path, msg.image)]

\* poll_decoded_images, one message of the drain loop.
\* A drain that leaves the path in decoding_in_flight.
PollOneInFlight(st, msg) ==
    [decoding_in_flight |-> st.decoding_in_flight,
     resize_cache       |-> Del(st.resize_cache, msg.path),
     protocol_cache     |-> st.protocol_cache \ {msg.path},
     image_decode_cache |-> Put(st.image_decode_cache, msg.path, msg.image),
     file_cache         |-> IF msg.url_hint # {}
                            THEN Put(st.file_cache,
                                     CHOOSE u \in msg.url_hint : TRUE, {msg.path})
                            ELSE st.file_cache]

PollOne(st, msg) ==
    [decoding_in_flight |-> st.decoding_in_flight \ {msg.path},
     resize_cache       |-> Del(st.resize_cache, msg.path),
     protocol_cache     |-> st.protocol_cache \ {msg.path},
     image_decode_cache |-> Put(st.image_decode_cache, msg.path, msg.image),
     file_cache         |-> IF msg.url_hint # {}
                            THEN Put(st.file_cache,
                                     CHOOSE u \in msg.url_hint : TRUE, {msg.path})
                            ELSE st.file_cache]

\* poll_decoded_images: `while let Ok(msg) = image_rx.try_recv()`.
RECURSIVE poll_decoded_images(_, _)
poll_decoded_images(st, msgs) ==
    IF msgs = <<>> THEN st
    ELSE poll_decoded_images(PollOne(st, Head(msgs)), Tail(msgs))

\* Variants of the three cache decisions below that a correct pipeline must
\* not take: retrying a failed decode, keeping a resize entry of other
\* dimensions, keeping protocols across an area change.
needs_decode_retrying(decode_cache, path) ==
    ~Has(decode_cache, path) \/ Get(decode_cache, path) = "none"

needs_resize_if_absent(cache, path, target_w, target_h) == ~Has(cache, path)

protocol_cache_kept(cache, last, area) == cache

\* A variant of the end of render that keeps every protocol.
protocols_all_kept(cache, last_gfx, this_frame_gfx) == cache

\* render, after the jobs: a path drawn through the protocol last frame but
\* not this frame has its protocol removed.
protocols_after_frame(cache, last_gfx, this_frame_gfx) ==
    cache \ (last_gfx \ this_frame_gfx)

\* render: the protocol cache survives only an unchanged width and height.
protocol_cache_for_area(cache, last, area) ==
    IF last.width # area.width \/ last.height # area.height THEN {} ELSE cache

\* render: a path is decoded in the background when the decode cache has no
\* entry for it.
needs_decode(decode_cache, path) == ~Has(decode_cache, path)

\* render: needs_resize = no resize entry, or one of other dimensions.
needs_resize(cache, path, target_w, target_h) ==
    \/ ~Has(cache, path)
    \/ Get(cache, path) # <<target_w, target_h>>

\* render: an image is skipped when its lines are all above or all below
\* the viewport.
placeholder_visible(info, area, scroll) ==
    LET text_line == U16(info.start_line)
        end_line == U16(text_line + U16(info.line_count))
    IN  ~(end_line <= scroll \/ text_line >= U16(scroll + area.height))

\* A variant of the caching below that stores every resolution.
cache_every_resolution(cache, url, resolved) == Put(cache, url, resolved)

\* render: `if resolved.is_some() { file_cache.insert(url, resolved) }`.
cache_resolution(cache, url, resolved) ==
    IF resolved # {} THEN Put(cache, url, resolved) ELSE cache

\* render, one iteration of `for info in &image_infos`.  st carries the
\* state the loop mutates: file_cache, decoding_in_flight, resize_cache, the
\* paths a thread was spawned for, the URLs resolve_image_path was called
\* for, and the jobs pushed so far.  A job also
\* notes the image's line_count and the resize entry the call found.
\* visible_top: the first screen row of the image inside the area.
clip_top(screen_y, area) == U16(Max(screen_y, area.y))

\* The image's bottom row, not cut at the bottom of the area.
unclipped_bottom(screen_y, full_rows, area) == U16(screen_y + full_rows)

\* visible_bottom: the image's bottom row, cut at the bottom of the area.
clip_bottom(screen_y, full_rows, area) ==
    U16(Min(screen_y + full_rows, U16(area.y + area.height)))

ImageStep(st, info, area, scroll, decode_cache, files) ==
    LET text_line == U16(info.start_line)
        cached == Has(st.file_cache, info.url)
        resolved == resolve_image_path(info.url, files)
        file_path == IF cached THEN Get(st.file_cache, info.url) ELSE resolved
        fc == IF cached THEN st.file_cache
              ELSE cache_resolution(st.file_cache, info.url, resolved)
        rs == IF cached THEN st.resolved ELSE st.resolved \cup {info.url}
        path == CHOOSE p \in file_path : TRUE
        full_cols == SatSub(area.width, 1)
        full_rows == U16(info.line_count)
        target_w == full_cols
        target_h == U16(full_rows * 2)
        rc == IF /\ needs_resize(st.resize_cache, path, target_w, target_h)
                 /\ Has(decode_cache, path)
                 /\ Get(decode_cache, path) = "img"
              THEN Put(st.resize_cache, path, <<target_w, target_h>>)
              ELSE st.resize_cache
        screen_y == area.y + text_line - scroll
        visible_top == clip_top(screen_y, area)
        visible_bottom == clip_bottom(screen_y, full_rows, area)
        job == [rect |-> Rect(area.x, visible_top, full_cols,
                              visible_bottom - visible_top),
                y_offset |-> U16(visible_top - screen_y),
                path |-> path,
                full_cols |-> full_cols,
                line_count |-> info.line_count,
                prior |-> IF Has(st.resize_cache, path)
                          THEN Get(st.resize_cache, path) ELSE <<>>]
    IN  IF ~placeholder_visible(info, area, scroll)
        THEN st
        ELSE IF file_path = {}
        THEN [st EXCEPT !.file_cache = fc, !.resolved = rs]
        ELSE IF needs_decode(decode_cache, path)
        THEN [st EXCEPT !.file_cache = fc,
                        !.resolved = rs,
                        !.decoding_in_flight = @ \cup {path},
                        !.spawned = IF path \in st.decoding_in_flight
                                    THEN @ ELSE @ \cup {path}]
        ELSE [st EXCEPT !.file_cache = fc,
                        !.resolved = rs,
                        !.resize_cache = rc,
                        !.jobs = IF visible_top < visible_bottom
                                 THEN Append(@, job) ELSE @]

RECURSIVE CollectJobs(_, _, _, _, _, _, _)
CollectJobs(st, infos, i, area, scroll, decode_cache, files) ==
    IF i > Len(infos) THEN st
    ELSE CollectJobs(ImageStep(st, infos[i], area, scroll, decode_cache, files),
                     infos, i + 1, area, scroll, decode_cache, files)

\* render, one iteration of `for job in &jobs`.  dr carries protocol_cache,
\* this_frame_gfx, and what the call drew.
DrawStep(dr, job, has_picker, decode_cache, resized) ==
    LET create == /\ job.path \notin dr.protocol_cache
                  /\ Has(decode_cache, job.path)
                  /\ Get(decode_cache, job.path) = "img"
        pc == IF create THEN dr.protocol_cache \cup {job.path}
              ELSE dr.protocol_cache
    IN  IF has_picker /\ job.y_offset = 0
        THEN [dr EXCEPT !.protocol_cache = pc,
                        !.created = IF create THEN @ \cup {job.path} ELSE @,
                        !.this_frame_gfx = IF job.path \in pc
                                           THEN @ \cup {job.path} ELSE @]
        ELSE IF has_picker
        THEN dr
        ELSE IF Has(resized, job.path)
        THEN [dr EXCEPT !.halfblock = @ \cup
                 {[path |-> job.path, full_cols |-> job.full_cols,
                   line_count |-> job.line_count, prior |-> job.prior,
                   entry |-> Get(resized, job.path)]}]
        ELSE dr

RECURSIVE DrawJobs(_, _, _, _, _, _)
DrawJobs(dr, jobs, i, has_picker, decode_cache, resized) ==
    IF i > Len(jobs) THEN dr
    ELSE DrawJobs(DrawStep(dr, jobs[i], has_picker, decode_cache, resized),
                  jobs, i + 1, has_picker, decode_cache, resized)

(***************************************************************************)
(* Editor buffer, wrapping, saving and code-fence highlighting             *)
(* (app/mod.rs, app/input.rs, app/save.rs, app/render.rs,                  *)
(* markdown/table_format.rs, markdown/code_highlight.rs).                  *)
(*                                                                         *)
(* A String is the sequence of its characters, "\n" among them; the        *)
(* TextArea's buffer is a sequence of lines.  The documents are made of    *)
(* "a", " ", the backtick and "\n", the typed and pasted text of "a" only, *)
(* so format_tables finds no table in the editor's buffer, and none of its *)
(* lines ever starts with two spaces.                                      *)
(***************************************************************************)
NL == "\n"

SP == " "

\* The backtick character.
BT == "backtick"

Str3(c) == <<c, c, c>>

\* str::lines: split at "\n"; a final empty piece is not a line.
RECURSIVE SplitLines(_, _)
SplitLines(s, cur) ==
    IF s = <<>> THEN (IF cur = <<>> THEN <<>> ELSE <<cur>>)
    ELSE IF Head(s) = NL THEN <<cur>> \o SplitLines(Tail(s), <<>>)
    ELSE SplitLines(Tail(s), Append(cur, Head(s)))

str_lines(s) == SplitLines(s, <<>>)

\* [String]::join("\n")
RECURSIVE join(_)
join(ls) ==
    IF ls = <<>> THEN <<>>
    ELSE IF Len(ls) = 1 THEN ls[1]
    ELSE ls[1] \o <<NL>> \o join(Tail(ls))

\* TextArea::new(if lines.is_empty() { vec![String::new()] } else { lines })
buffer_lines(content) ==
    IF str_lines(content) = <<>> THEN <<(<<>>)>> ELSE str_lines(content)

leading_ws(s) ==
    IF \A i \in 1..Len(s) : s[i] = SP THEN Len(s)
    ELSE (CHOOSE i \in 1..Len(s) : s[i] # SP /\ \A j \in 1..(i - 1) : s[j] = SP) - 1

trim_start(s) == SubSeq(s, leading_ws(s) + 1, Len(s))

\* str::trim
trim(s) ==
    LET t == trim_start(s)
        N == {i \in 1..Len(t) : t[i] # SP}
    IN  IF N = {} THEN <<>> ELSE SubSeq(t, 1, CHOOSE i \in N : \A j \in N : j <= i)

starts_with(s, p) == Len(s) >= Len(p) /\ SubSeq(s, 1, Len(p)) = p

\* str::rfind(' ') as a 0-based position, -1 for None.
rfind_space(s) ==
    LET P == {i \in 1..Len(s) : s[i] = SP}
    IN  IF P = {} THEN -1 ELSE (CHOOSE i \in P : \A j \in P : j <= i) - 1

Spaces(n) == [i \in 1..n |-> SP]

\* continuation_indent: the position of ". " after at most 4 digits, 0-based,
\* or -1.
ordered_marker(rest) ==
    LET P == {i \in 1..(Len(rest) - 1) : rest[i] = "." /\ rest[i + 1] = SP}
        pos == (CHOOSE i \in P : \A j \in P : i <= j) - 1
    IN  IF P = {} THEN -1
        ELSE IF pos <= 4 /\ \A k \in 1..pos : rest[k] \in {"0", "1", "2", "3", "4",
                                                         "5", "6", "7", "8", "9"}
        THEN pos ELSE -1

continuation_indent(line) ==
    LET lw == leading_ws(line)
        rest == SubSeq(line, lw + 1, Len(line))
    IN  IF ordered_marker(rest) >= 0 THEN Spaces(lw + ordered_marker(rest) + 2)
        ELSE IF \E b \in {"-", "*", "+"} : starts_with(rest, <<b, SP>>)
        THEN Spaces(lw + 2)
        ELSE IF starts_with(rest, <<">", SP>>) THEN Spaces(lw) \o <<">", SP>>
        ELSE Spaces(lw)

\* wrap_line with the rest of the line left as it is after a break, the
\* space it was broken at included.
RECURSIVE wrap_line_untrimmed(_, _, _, _)
wrap_line_untrimmed(remaining, width, continuation, is_first) ==
    LET prefix == IF is_first THEN <<>> ELSE continuation
        avail == SatSub(width, Len(prefix))
        break_at == rfind_space(SubSeq(remaining, 1, Min(avail, Len(remaining))))
        split == Min(avail, Len(remaining))
    IN  IF remaining = <<>> THEN <<>>
        ELSE IF avail = 0 THEN <<prefix \o remaining>>
        ELSE IF Len(prefix) + Len(remaining) <= width THEN <<prefix \o remaining>>
        ELSE IF break_at > 0
        THEN <<prefix \o SubSeq(remaining, 1, break_at)>>
             \o wrap_line_untrimmed(SubSeq(remaining, break_at + 1, Len(remaining)),
                                    width, continuation, FALSE)
        ELSE <<prefix \o SubSeq(remaining, 1, split)>>
             \o wrap_line_untrimmed(SubSeq(remaining, split + 1, Len(remaining)),
                                    width, continuation, FALSE)

\* wrap_line: break at the last space at a position > 0 within the available
\* width, else force-split at the width.
RECURSIVE wrap_line(_, _, _, _)
wrap_line(remaining, width, continuation, is_first) ==
    LET prefix == IF is_first THEN <<>> ELSE continuation
        avail == SatSub(width, Len(prefix))
        break_at == rfind_space(SubSeq(remaining, 1, Min(avail, Len(remaining))))
        split == Min(avail, Len(remaining))
    IN  IF remaining = <<>> THEN <<>>
        ELSE IF avail = 0 THEN <<prefix \o remaining>>
        ELSE IF Len(prefix) + Len(remaining) <= width THEN <<prefix \o remaining>>
        ELSE IF break_at > 0
        THEN <<prefix \o SubSeq(remaining, 1, break_at)>>
             \o wrap_line(trim_start(SubSeq(remaining, break_at + 1, Len(remaining))),
                          width, continuation, FALSE)
        ELSE <<prefix \o SubSeq(remaining, 1, split)>>
             \o wrap_line(SubSeq(remaining, split + 1, Len(remaining)),
                          width, continuation, FALSE)

\* str::contains(char)
contains(s, c) == \E i \in 1..Len(s) : s[i] = c

\* str::split(char): the pieces between the separators, empty ones included.
RECURSIVE SplitAt(_, _, _)
SplitAt(s, c, cur) ==
    IF s = <<>> THEN <<cur>>
    ELSE IF Head(s) = c THEN <<cur>> \o SplitAt(Tail(s), c, <<>>)
    ELSE SplitAt(Tail(s), c, Append(cur, Head(s)))

\* cell.trim().is_empty()
blank_cell(c) == \A j \in 1..Len(c) : c[j] = SP

\* The cells without the last one when that is blank.
strip_last_blank(inner) ==
    IF inner # <<>> /\ blank_cell(inner[Len(inner)])
    THEN SubSeq(inner, 1, Len(inner) - 1) ELSE inner

\* Every cell is non-empty when trimmed and made of dashes, colons and spaces.
separator_cells(inner) ==
    /\ inner # <<>>
    /\ \A k \in 1..Len(inner) :
          /\ ~blank_cell(inner[k])
          /\ \A j \in 1..Len(inner[k]) : inner[k][j] \in {"-", ":", SP}

\* The cells of a line split at '|', without a blank first cell.
cells_after_first(cells) == IF blank_cell(Head(cells)) THEN Tail(cells) ELSE cells

\* is_separator_row: the trimmed line holds a '|' and, after dropping a blank
\* first and a blank last cell, every cell is a separator cell.
is_separator_row(line) ==
    /\ contains(line, "|")
    /\ separator_cells(strip_last_blank(cells_after_first(SplitAt(trim(line), "|", <<>>))))

\* hard_wrap, the loop over the lines, as the lines emitted for each input
\* line: fence delimiters toggle in_code_fence; fenced lines, headings and
\* table rows are kept; a line that fits is kept; any other line is wrapped.
RECURSIVE HardWrapPieces(_, _, _, _)
HardWrapPieces(ls, i, width, in_code_fence) ==
    IF i > Len(ls) THEN <<>>
    ELSE LET line == ls[i]
             trimmed == trim_start(line)
         IN  IF starts_with(trimmed, Str3(BT)) \/ starts_with(trimmed, Str3("~"))
             THEN <<(<<line>>)>> \o HardWrapPieces(ls, i + 1, width, ~in_code_fence)
             ELSE IF \/ in_code_fence
                     \/ starts_with(trimmed, <<"#">>)
                     \/ contains(line, "|") /\ is_separator_row(line)
                     \/ contains(line, "|") /\ starts_with(trimmed, <<"|">>)
                     \/ Len(line) <= width
             THEN <<(<<line>>)>> \o HardWrapPieces(ls, i + 1, width, in_code_fence)
             ELSE <<wrap_line(line, width, continuation_indent(line), TRUE)>>
                  \o HardWrapPieces(ls, i + 1, width, in_code_fence)

\* The lines pushed to `result`, in order.
RECURSIVE Flatten(_)
Flatten(ss) == IF ss = <<>> THEN <<>> ELSE Head(ss) \o Flatten(Tail(ss))

HardWrapLines(ls, i, width, in_code_fence) ==
    Flatten(HardWrapPieces(ls, i, width, in_code_fence))

hard_wrap(content, width) ==
    IF width = 0 THEN content
    ELSE join(HardWrapLines(str_lines(content), 1, width, FALSE))

\* format_tables: try_format_table returns None at every line that has no
\* '|', so every line is pushed as it is and the lines are joined again.
format_tables(content, terminal_width) == join(str_lines(content))

\* The search for the closing fence that stops at any line that starts with
\* three backticks.
RECURSIVE FenceEndAtAnyMarker(_, _)
FenceEndAtAnyMarker(ls, i) ==
    IF i >= Len(ls) THEN [end_line |-> Len(ls) - 1, next |-> i]
    ELSE IF starts_with(trim_start(ls[i + 1]), Str3(BT))
         THEN [end_line |-> i, next |-> i + 1]
         ELSE FenceEndAtAnyMarker(ls, i + 1)

\* find_code_fence_regions: the index of the closing fence at or after i
\* (0-based), or the last line's index when the fence is unclosed.
RECURSIVE FenceEnd(_, _)
FenceEnd(ls, i) ==
    IF i >= Len(ls) THEN [end_line |-> Len(ls) - 1, next |-> i]
    ELSE LET t == trim_start(ls[i + 1])
         IN  IF starts_with(t, Str3(BT)) /\ \A k \in 4..Len(t) : t[k] = SP
             THEN [end_line |-> i, next |-> i + 1]
             ELSE FenceEnd(ls, i + 1)

RECURSIVE FenceRegions(_, _)
FenceRegions(ls, i) ==
    IF i >= Len(ls) THEN <<>>
    ELSE LET trimmed == trim_start(ls[i + 1])
             lang == SubSeq(trimmed, 4, Len(trimmed))
             close == FenceEnd(ls, i + 1)
         IN  IF starts_with(trimmed, Str3(BT))
             THEN <<[start_line |-> i, end_line |-> close.end_line,
                     language |-> trim(lang)]>>
                  \o FenceRegions(ls, close.next)
             ELSE FenceRegions(ls, i + 1)

find_code_fence_regions(ls) == FenceRegions(ls, 0)

\* hard_wrap has not been called.
NoWrapOut == [done |-> FALSE, text |-> <<>>, pieces |-> <<>>]

WrapIdle ==
    /\ wrap_content = <<>>
    /\ wrap_width = 0
    /\ wrap_out = NoWrapOut

\* The hint App::new shows in the status bar.
StartHint == "F1: help"

NoFrame == [drawn |-> FALSE, cells |-> <<>>, expired |-> FALSE, ready |-> FALSE,
            idle |-> FALSE, after |-> <<>>]

\* App::new and PreviewState::new: the hint is shown, nothing is drawn.
NoLayout == [done |-> FALSE, lines |-> <<>>]

MdIdle ==
    /\ md_events = <<>>
    /\ md_width = 0
    /\ md_out = NoLayout

ViewIdle ==
    /\ status_message = StartHint
    /\ frame_buf = NoFrame
    /\ link_lines = <<>>
    /\ link_painted = <<>>
    /\ click_links = <<>>

\* No key has been pressed.
NoKey == [code |-> "none", help |-> FALSE]

\* The name of the file the application was started on.
OpenedName == <<"a">>

\* App::new: no modal is shown, the rename input is empty.
ModalIdle ==
    /\ show_help = FALSE
    /\ renaming = FALSE
    /\ rename_buf = <<>>
    /\ rename_cursor = 0
    /\ app_file_path = OpenedName
    /\ last_key = NoKey

\* highlight_code_regions: per region the spans of the lines
\* start_line + 1 .. end_line - 1; a line's spans spell the line's text.
highlight_code_regions(regions, ls) ==
    [r \in DOMAIN regions |->
        [k \in 1..Max(0, Min(regions[r].end_line, Len(ls)) - (regions[r].start_line + 1))
            |-> ls[regions[r].start_line + 1 + k]]]

\* The line-number gutter: (total_lines as f64).log10() as usize + 1 + 2.
gutter(total_lines) ==
    (IF total_lines < 10 THEN 0 ELSE IF total_lines < 100 THEN 1 ELSE 2) + 1 + 2

\* available_text_width, and the same computation in save and auto_wrap_line.
text_width(area, ls) == SatSub(area.width, gutter(Len(ls)))

\* tui-textarea's TextArea as [lines, cursor, history, index]: the cursor is
\* <<row, col>>, 0-based; history holds one entry per edit with the buffer
\* and cursor before and after it, and index counts the entries not undone.
TextArea(ls) == [lines |-> ls, cursor |-> <<0, 0>>, history |-> <<>>, index |-> 0]

ta_edit(ta, ls, cur) ==
    [lines |-> ls,
     cursor |-> cur,
     history |-> Append(SubSeq(ta.history, 1, ta.index),
                        [before |-> <<ta.lines, ta.cursor>>, after |-> <<ls, cur>>]),
     index |-> ta.index + 1]

\* CursorMove::Jump(row, col), clamped to the buffer.
jump(ta, row, col) ==
    LET r == Min(row, Len(ta.lines) - 1)
    IN  [ta EXCEPT !.cursor = <<r, Min(col, Len(ta.lines[r + 1]))>>]

\* TextArea::insert_str for a text without line breaks (insert_char is the
\* one-character case).
insert_str(ta, s) ==
    LET row == ta.cursor[1]
        col == ta.cursor[2]
        line == ta.lines[row + 1]
    IN  ta_edit(ta,
                [ta.lines EXCEPT ![row + 1] =
                    SubSeq(line, 1, col) \o s \o SubSeq(line, col + 1, Len(line))],
                <<row, col + Len(s)>>)

\* Replace line `row` (0-based) by the lines `by`.
splice(ls, row, n, by) == SubSeq(ls, 1, row) \o by \o SubSeq(ls, row + n + 1, Len(ls))

\* TextArea::delete_char (Backspace): the character before the cursor, or
\* the line break before the line; nothing at the start of the buffer.
delete_char(ta) ==
    LET row == ta.cursor[1]
        col == ta.cursor[2]
        line == ta.lines[row + 1]
        prev == ta.lines[row]
    IN  IF col > 0
        THEN ta_edit(ta,
                 [ta.lines EXCEPT ![row + 1] =
                     SubSeq(line, 1, col - 1) \o SubSeq(line, col + 1, Len(line))],
                 <<row, col - 1>>)
        ELSE IF row > 0
        THEN ta_edit(ta, splice(ta.lines, row - 1, 2, <<prev \o line>>),
                     <<row - 1, Len(prev)>>)
        ELSE ta

\* TextArea::delete_next_char: the character at the cursor, or the line
\* break after the line.
delete_next_char(ta) ==
    LET row == ta.cursor[1]
        col == ta.cursor[2]
        line == ta.lines[row + 1]
    IN  IF col < Len(line)
        THEN ta_edit(ta,
                 [ta.lines EXCEPT ![row + 1] =
                     SubSeq(line, 1, col) \o SubSeq(line, col + 2, Len(line))],
                 ta.cursor)
        ELSE IF row + 1 < Len(ta.lines)
        THEN ta_edit(ta, splice(ta.lines, row, 2, <<line \o ta.lines[row + 2]>>),
                     ta.cursor)
        ELSE ta

\* TextArea::insert_newline
insert_newline(ta) ==
    LET row == ta.cursor[1]
        col == ta.cursor[2]
        line == ta.lines[row + 1]
    IN  ta_edit(ta,
                splice(ta.lines, row, 1,
                       <<SubSeq(line, 1, col), SubSeq(line, col + 1, Len(line))>>),
                <<row + 1, 0>>)

\* TextArea::undo / redo
undo(ta) ==
    IF ta.index = 0 THEN ta
    ELSE [ta EXCEPT !.lines = ta.history[ta.index].before[1],
                    !.cursor = ta.history[ta.index].before[2],
                    !.index = @ - 1]

redo(ta) ==
    IF ta.index = Len(ta.history) THEN ta
    ELSE [ta EXCEPT !.lines = ta.history[ta.index + 1].after[1],
                    !.cursor = ta.history[ta.index + 1].after[2],
                    !.index = @ + 1]

\* auto_wrap_line, the conditions at which the loop breaks: the text width
\* is 0, the line under the cursor fits, is a heading, a fence or a table
\* line, or has no space at a position > 0 within the text width.
wrap_breaks(ta, area) ==
    LET line == ta.lines[ta.cursor[1] + 1]
        tw == text_width(area, ta.lines)
        trimmed == trim_start(line)
    IN  \/ tw = 0
        \/ Len(line) <= tw
        \/ starts_with(trimmed, <<"#">>)
        \/ starts_with(trimmed, Str3(BT))
        \/ starts_with(trimmed, Str3("~"))
        \/ starts_with(trimmed, <<"|">>)
        \/ rfind_space(SubSeq(line, 1, Min(tw, Len(line)))) <= 0

\* auto_wrap_line, one pass of the loop body that does not break: the line
\* is split at the last space within the text width, the continuation
\* indent is inserted and the cursor is moved back if it was after the break.
wrap_split(ta, area) ==
    LET row == ta.cursor[1]
        col == ta.cursor[2]
        line == ta.lines[row + 1]
        tw == text_width(area, ta.lines)
        break_pos == rfind_space(SubSeq(line, 1, Min(tw, Len(line))))
        indent == continuation_indent(line)
        split == insert_newline(delete_next_char(jump(ta, row, break_pos)))
        indented == IF indent # <<>> THEN insert_str(split, indent) ELSE split
    IN  IF col > break_pos
        THEN jump(indented, row + 1, Len(indent) + (col - break_pos - 1))
        ELSE indented

\* auto_wrap_line: `for _ in 0..500`, at most n passes of the loop body, the
\* first half of them and then the rest.
RECURSIVE auto_wrap_line(_, _, _)
auto_wrap_line(ta, area, n) ==
    IF n = 0 \/ wrap_breaks(ta, area) THEN ta
    ELSE IF n = 1 THEN wrap_split(ta, area)
    ELSE auto_wrap_line(auto_wrap_line(ta, area, n \div 2), area, n - n \div 2)

\* reflow_content: the TextArea rebuilt at new_width from the raw original
\* when unmodified, from the buffer otherwise.
reflow_content(ta, is_modified, original, new_width) ==
    LET source == IF is_modified THEN join(ta.lines) ELSE original
        wrapped == hard_wrap(source, new_width)
        ls == IF wrapped = <<>> THEN <<(<<>>)>> ELSE str_lines(wrapped)
    IN  jump(TextArea(ls), ta.cursor[1], ta.cursor[2])

\* save, up to the write: the buffer after table formatting and hard wrap;
\* the TextArea is rebuilt only when formatting changed the content.
save_format(ta, area) ==
    LET content == join(ta.lines)
        width == text_width(area, ta.lines)
        formatted == hard_wrap(format_tables(content, width), width)
    IN  IF formatted # content
        THEN jump(TextArea(buffer_lines(formatted)), ta.cursor[1], ta.cursor[2])
        ELSE ta

\* A fenced code block, for which render_markdown calls highlight_code.
has_code_block(ls) == \E i \in 1..Len(ls) : starts_with(ls[i], Str3(BT))

\* code_highlight::try_get
try_get == syntax_set = "ready" /\ theme_set = "ready"

(***************************************************************************)
(* The editor as a state machine: the file is loaded, frames are drawn     *)
(* (reflowing the buffer when the text width changed), keys edit, save and *)
(* quit, and the thread of ensure_loaded fills the syntect statics.        *)
(***************************************************************************)
EdTermSizes ==
    {[width |-> MaxEdCols - d, height |-> MaxTermRows] : d \in 0..1}

\* The files opened.
Documents ==
    {<<"a">>,
     <<"a", NL>>,
     <<"a", NL, NL>>,
     <<"a", SP, "a">>,
     <<"a", "a", NL, BT, BT, BT, NL, "a", NL, BT, BT, BT>>}

KeyChars == {"a"}

PasteTexts == {<<"a", "a">>}

NoOverlay == [drawn |-> FALSE, regions |-> <<>>, highlights |-> <<>>, lines |-> <<>>]

\* App::new
AppLoaded(content) ==
    /\ textarea = TextArea(buffer_lines(content))
    /\ modified = FALSE
    /\ original_content = content
    /\ wrapped_original = content
    /\ last_wrap_width = 0
    /\ should_quit = FALSE
    /\ code_fence_regions = find_code_fence_regions(buffer_lines(content))
    /\ code_fence_highlights = <<>>
    /\ code_fence_dirty = TRUE

EditorIdle ==
    /\ AppLoaded(<<>>)
    /\ file_content = <<>>
    /\ write_failed = FALSE
    /\ syntax_set = "ready"
    /\ theme_set = "ready"
    /\ warm_pc = "done"
    /\ overlay = NoOverlay
    /\ edits = 0

(***************************************************************************)
(* The image pipeline as a state machine: the main loop draws a frame,     *)
(* ticks, then handles events; decode and paste threads run beside it.     *)
(***************************************************************************)
TermSizes ==
    {[width |-> MaxTermCols - d, height |-> MaxTermRows - d] : d \in 0..1}

PasteStages == {"spawned", "written"}

NoRender ==
    [area_changed |-> FALSE, proto_before |-> {}, proto_after |-> {},
     created |-> {}, halfblock |-> {}, job_paths |-> {}, jobs |-> <<>>,
     resolved |-> {}, retried |-> {}]

ImageNew ==
    /\ scroll_offset = 0
    /\ content_height = 0
    /\ file_cache = {}
    /\ image_decode_cache = {}
    /\ resize_cache = {}
    /\ last_area = Rect(0, 0, 0, 0)
    /\ image_rx = <<>>
    /\ decoding_in_flight = {}
    /\ protocol_cache = {}
    /\ last_gfx_paths = {}
    /\ render_workers = [p \in Paths |-> 0]
    /\ paste_workers = [k \in Paths \X PasteStages |-> 0]
    /\ pastes = 0
    /\ last_render = NoRender

AppNew ==
    /\ loop_pc = "draw"
    /\ mode = "Editor"
    /\ content_area = Rect(0, 0, 0, 0)
    /\ viewport_height = 0

TableIdle ==
    /\ tbl_natural = <<MIN_COL>>
    /\ tbl_width = 0
    /\ tbl_bq = 0
    /\ overflow_checks = FALSE
    /\ tbl_fn = "idle"
    /\ tbl_out = NoOutcome
    /\ tbl_body_rows = 0
    /\ tbl_lines = <<>>

InitImage ==
    /\ MdIdle
    /\ ViewIdle
    /\ ModalIdle
    /\ TableIdle
    /\ AppNew
    /\ ImageNew
    /\ term \in TermSizes
    /\ doc \in SeqsUpTo(LocalUrls, MaxDocImages)
    /\ disk \in SUBSET {PathOf(u) : u \in LocalUrls}
    /\ picker \in BOOLEAN
    /\ EditorIdle
    /\ WrapIdle

\* preview::render: the caches it leaves, the paths it spawned a decode
\* thread for, and what it drew.
\* (st, the state after the loop over image_infos, and dr, the state after
\* the loop over the jobs, are bound as values so that each is computed
\* once.)
PreviewRender(area) ==
    CHOOSE out \in UNION {{
        [file_cache |-> st.file_cache,
         decoding_in_flight |-> st.decoding_in_flight,
         resize_cache |-> st.resize_cache,
         spawned |-> st.spawned,
         resolved |-> st.resolved,
         jobs |-> st.jobs,
         protocol_cache |-> protocols_after_frame(dr.protocol_cache, last_gfx_paths,
                                                  dr.this_frame_gfx),
         this_frame_gfx |-> dr.this_frame_gfx,
         created |-> dr.created,
         halfblock |-> dr.halfblock]
        : dr \in {DrawJobs([protocol_cache |->
                                protocol_cache_for_area(protocol_cache, last_area, area),
                            this_frame_gfx |-> {},
                            created |-> {},
                            halfblock |-> {}],
                           st.jobs, 1, picker, image_decode_cache, st.resize_cache)}}
        : st \in {CollectJobs([file_cache |-> file_cache,
                               decoding_in_flight |-> decoding_in_flight,
                               resize_cache |-> resize_cache,
                               spawned |-> {},
                               resolved |-> {},
                               jobs |-> <<>>],
                              image_infos(doc), 1, area, scroll_offset,
                              image_decode_cache, disk)}} : TRUE

\* preview::render on the caches as App::render finds them; in Editor mode
\* the preview is not rendered and they stay as they are.
RenderedCaches(area) ==
    IF mode = "Preview" THEN PreviewRender(area)
    ELSE [file_cache |-> file_cache,
          decoding_in_flight |-> decoding_in_flight,
          resize_cache |-> resize_cache,
          protocol_cache |-> protocol_cache,
          spawned |-> {}]

\* render_frame: terminal.draw(|frame| self.render(frame)), then tick(),
\* which drains the decoded images.  The threads only append to the channel
\* and render does not read it, so a message sent between the two halves is
\* drained exactly as one sent just before the frame.
RenderFrame ==
    \E area \in {chunks2(term)} :
    \E r \in {RenderedCaches(area)} :
    \E st \in {poll_decoded_images(
                  [decoding_in_flight |-> r.decoding_in_flight,
                   resize_cache |-> r.resize_cache,
                   protocol_cache |-> r.protocol_cache,
                   image_decode_cache |-> image_decode_cache,
                   file_cache |-> r.file_cache], image_rx)} :
        /\ loop_pc \in {"draw", "events"}
        /\ loop_pc' = "events"
        /\ content_area' = area
        /\ viewport_height' = area.height
        /\ IF mode = "Preview"
           THEN /\ content_height' = U16(rendered_lines(doc))
                /\ last_area' = area
                /\ last_gfx_paths' = r.this_frame_gfx
                /\ last_render' =
                       [area_changed |-> (last_area.width # area.width
                                          \/ last_area.height # area.height),
                        proto_before |-> protocol_cache,
                        proto_after |-> r.protocol_cache,
                        created |-> r.created,
                        halfblock |-> r.halfblock,
                        job_paths |-> {r.jobs[i].path : i \in DOMAIN r.jobs},
                        jobs |-> [i \in DOMAIN r.jobs |->
                                     [rect |-> r.jobs[i].rect,
                                      y_offset |-> r.jobs[i].y_offset,
                                      line_count |-> r.jobs[i].line_count]],
                        resolved |-> r.resolved,
                        retried |-> r.resolved \cap last_render.resolved]
           ELSE UNCHANGED <<content_height, last_area, last_gfx_paths,
                            last_render>>
        /\ render_workers' =
               [p \in Paths |-> render_workers[p] + IF p \in r.spawned THEN 1 ELSE 0]
        /\ decoding_in_flight' = st.decoding_in_flight
        /\ resize_cache' = st.resize_cache
        /\ protocol_cache' = st.protocol_cache
        /\ image_decode_cache' = st.image_decode_cache
        /\ file_cache' = st.file_cache
        /\ image_rx' = <<>>
        /\ UNCHANGED <<doc, disk, scroll_offset, picker, paste_workers, pastes>>
        /\ UNCHANGED <<mode, term, tblVars, mdVars, viewVars, modalVars, wrapVars, edVars>>

\* PreviewState::scroll_up / scroll_down
scroll_up(offset, amount) == SatSub(offset, amount)

scroll_down(offset, amount, height, viewport) ==
    Min(U16(offset + amount), SatSub(height, viewport))

\* handle_key, Tab: set_mode toggles the mode; entering the preview resets
\* its scroll offset.
KeyTab ==
    /\ loop_pc = "events"
    /\ mode' = IF mode = "Editor" THEN "Preview" ELSE "Editor"
    /\ scroll_offset' = IF mode = "Editor" THEN 0 ELSE scroll_offset
    /\ UNCHANGED <<doc, disk, content_height, file_cache, image_decode_cache,
                   resize_cache, last_area, image_rx, decoding_in_flight, picker,
                   protocol_cache, last_gfx_paths, render_workers, paste_workers,
                   pastes, last_render>>
    /\ UNCHANGED <<loop_pc, term, content_area, viewport_height, tblVars, mdVars, viewVars, modalVars, wrapVars, edVars>>

PreviewKeys == {"Up", "Down", "PageUp", "PageDown", "Home", "End"}

\* handle_preview_key
handle_preview_key(key) ==
    CASE key = "Up" -> scroll_up(scroll_offset, 1)
      [] key = "Down" -> scroll_down(scroll_offset, 1, content_height, viewport_height)
      [] key = "PageUp" -> scroll_up(scroll_offset, SatSub(viewport_height, 2))
      [] key = "PageDown" -> scroll_down(scroll_offset, SatSub(viewport_height, 2),
                                         content_height, viewport_height)
      [] key = "Home" -> 0
      [] key = "End" -> SatSub(content_height, viewport_height)

KeyPreview ==
    /\ loop_pc = "events"
    /\ mode = "Preview"
    /\ \E key \in PreviewKeys : scroll_offset' = handle_preview_key(key)
    /\ UNCHANGED <<doc, disk, content_height, file_cache, image_decode_cache,
                   resize_cache, last_area, image_rx, decoding_in_flight, picker,
                   protocol_cache, last_gfx_paths, render_workers, paste_workers,
                   pastes, last_render>>
    /\ UNCHANGED <<appVars, tblVars, mdVars, viewVars, modalVars, wrapVars, edVars>>

\* handle_mouse, scroll wheel in the preview
MouseWheel ==
    /\ loop_pc = "events"
    /\ mode = "Preview"
    /\ \/ scroll_offset' = scroll_up(scroll_offset, SCROLL_LINES)
       \/ scroll_offset' = scroll_down(scroll_offset, SCROLL_LINES,
                                       content_height, viewport_height)
    /\ UNCHANGED <<doc, disk, content_height, file_cache, image_decode_cache,
                   resize_cache, last_area, image_rx, decoding_in_flight, picker,
                   protocol_cache, last_gfx_paths, render_workers, paste_workers,
                   pastes, last_render>>
    /\ UNCHANGED <<appVars, tblVars, mdVars, viewVars, modalVars, wrapVars, edVars>>

\* Event::Resize: the next frame is drawn for the new terminal size.
Resize ==
    /\ loop_pc = "events"
    /\ \E size \in TermSizes \ {term} : term' = size
    /\ UNCHANGED <<loop_pc, mode, content_area, viewport_height, imgVars, tblVars, mdVars, viewVars, modalVars, wrapVars, edVars>>

\* handle_editor_key, Ctrl+V with an image on the clipboard:
\* paste_image_from_clipboard names the file after the current second, spawns
\* its thread and returns the markdown link that is inserted into the buffer.
PasteImage ==
    /\ loop_pc = "events"
    /\ mode = "Editor"
    /\ pastes < MaxPastes
    /\ Len(doc) < MaxDocImages
    /\ \E url \in ShotUrls :
        /\ doc' = Append(doc, url)
        /\ paste_workers' =
               [paste_workers EXCEPT ![<<PathOf(url), "spawned">>] = @ + 1]
    /\ pastes' = pastes + 1
    /\ UNCHANGED <<disk, scroll_offset, content_height, file_cache,
                   image_decode_cache, resize_cache, last_area, image_rx,
                   decoding_in_flight, picker, protocol_cache, last_gfx_paths,
                   render_workers, last_render>>
    /\ UNCHANGED <<appVars, tblVars, mdVars, viewVars, modalVars, wrapVars, edVars>>

\* The thread of paste_image_from_clipboard writes the PNG (the write may
\* fail) ...
PasteWorkerWrite ==
    /\ \E p \in Paths, ok \in BOOLEAN :
        /\ paste_workers[<<p, "spawned">>] > 0
        /\ paste_workers' = [paste_workers EXCEPT ![<<p, "spawned">>] = @ - 1,
                                                  ![<<p, "written">>] = @ + 1]
        /\ disk' = IF ok THEN disk \cup {p} ELSE disk
    /\ UNCHANGED <<doc, scroll_offset, content_height, file_cache,
                   image_decode_cache, resize_cache, last_area, image_rx,
                   decoding_in_flight, picker, protocol_cache, last_gfx_paths,
                   render_workers, pastes, last_render>>
    /\ UNCHANGED <<appVars, tblVars, mdVars, viewVars, modalVars, wrapVars, edVars>>

\* ... and sends the decoded image, or None, with the URL as hint.
PasteWorkerSend ==
    /\ \E p \in Paths, img \in {"img", "none"} :
        /\ paste_workers[<<p, "written">>] > 0
        /\ paste_workers' = [paste_workers EXCEPT ![<<p, "written">>] = @ - 1]
        /\ image_rx' = Append(image_rx,
               [path |-> p, image |-> img, url_hint |-> {p[2]}])
    /\ UNCHANGED <<doc, disk, scroll_offset, content_height, file_cache,
                   image_decode_cache, resize_cache, last_area,
                   decoding_in_flight, picker, protocol_cache, last_gfx_paths,
                   render_workers, pastes, last_render>>
    /\ UNCHANGED <<appVars, tblVars, mdVars, viewVars, modalVars, wrapVars, edVars>>

\* The thread spawned by render: load_image, then send with no hint.
DecodeWorker(p) ==
    /\ \E img \in {"img", "none"} :
        /\ render_workers[p] > 0
        /\ render_workers' = [render_workers EXCEPT ![p] = @ - 1]
        /\ image_rx' = Append(image_rx, [path |-> p, image |-> img, url_hint |-> {}])
    /\ UNCHANGED <<doc, disk, scroll_offset, content_height, file_cache,
                   image_decode_cache, resize_cache, last_area,
                   decoding_in_flight, picker, protocol_cache, last_gfx_paths,
                   paste_workers, pastes, last_render>>
    /\ UNCHANGED <<appVars, tblVars, mdVars, viewVars, modalVars, wrapVars, edVars>>

DecodeWorkerSend == \E p \in Paths : DecodeWorker(p)

NextImage ==
    \/ RenderFrame
    \/ KeyTab
    \/ KeyPreview
    \/ MouseWheel
    \/ Resize
    \/ PasteImage
    \/ PasteWorkerWrite
    \/ PasteWorkerSend
    \/ DecodeWorkerSend

InitEditor ==
    /\ MdIdle
    /\ ViewIdle
    /\ ModalIdle
    /\ TableIdle
    /\ WrapIdle
    /\ AppNew
    /\ ImageNew
    /\ doc = <<>>
    /\ disk = {}
    /\ picker = FALSE
    /\ term \in EdTermSizes
    /\ \E content \in Documents : file_content = content /\ AppLoaded(content)
    /\ write_failed = FALSE
    /\ syntax_set = "uninit"
    /\ theme_set = "uninit"
    /\ warm_pc = "syntax_set"
    /\ overlay = NoOverlay
    /\ edits = 0

\* update_modified
update_modified(ta, wrapped) == join(ta.lines) # wrapped

\* The thread of ensure_loaded: syntax_set(), then theme_set().  A
\* get_or_init on an empty cell runs the initializer, on a cell another
\* thread is initializing it waits, on a full cell it returns.
WarmLoad ==
    /\ \/ /\ warm_pc = "syntax_set"
          /\ syntax_set \in {"uninit", "by_warm", "ready"}
          /\ syntax_set' = IF syntax_set = "uninit" THEN "by_warm" ELSE "ready"
          /\ warm_pc' = IF syntax_set = "uninit" THEN warm_pc ELSE "theme_set"
          /\ UNCHANGED theme_set
       \/ /\ warm_pc = "theme_set"
          /\ theme_set \in {"uninit", "by_warm", "ready"}
          /\ theme_set' = IF theme_set = "uninit" THEN "by_warm" ELSE "ready"
          /\ warm_pc' = IF theme_set = "uninit" THEN warm_pc ELSE "done"
          /\ UNCHANGED syntax_set
    /\ UNCHANGED <<textarea, modified, original_content, wrapped_original,
                   last_wrap_width, should_quit, file_content, write_failed,
                   code_fence_regions, code_fence_highlights, code_fence_dirty,
                   overlay, edits>>
    /\ UNCHANGED <<appVars, tblVars, mdVars, viewVars, modalVars, wrapVars, imgVars>>

\* render_frame in the editor's view: App::render reflows when the available
\* text width changed, then draws the editor with its highlight overlay or
\* lays out the preview, whose code blocks go through highlight_code.
render ==
    LET area == chunks2(term)
        current_text_width == text_width(area, textarea.lines)
        reflow == current_text_width > 0 /\ current_text_width # last_wrap_width
        ta == IF reflow
              THEN reflow_content(textarea, modified, original_content,
                                  current_text_width)
              ELSE textarea
        wrapped == IF reflow THEN hard_wrap(original_content, current_text_width)
                   ELSE wrapped_original
        dirty == code_fence_dirty \/ reflow
        refresh == mode = "Editor" /\ dirty /\ try_get
        regions == IF refresh THEN find_code_fence_regions(ta.lines)
                   ELSE code_fence_regions
        highlights == IF refresh THEN highlight_code_regions(regions, ta.lines)
                      ELSE code_fence_highlights
    IN  /\ loop_pc \in {"draw", "events"}
        /\ content_area' = area
        /\ viewport_height' = area.height
        /\ textarea' = ta
        /\ wrapped_original' = wrapped
        /\ last_wrap_width' = IF reflow THEN current_text_width ELSE last_wrap_width
        /\ modified' = IF reflow THEN update_modified(ta, wrapped) ELSE modified
        /\ code_fence_regions' = regions
        /\ code_fence_highlights' = highlights
        /\ code_fence_dirty' = (dirty /\ ~refresh)
        /\ overlay' = IF mode = "Editor" /\ (~dirty \/ refresh) /\ regions # <<>>
                      THEN [drawn |-> TRUE,
                            regions |-> regions,
                            highlights |-> highlights,
                            lines |-> ta.lines]
                      ELSE NoOverlay
        /\ loop_pc' = IF mode = "Preview" /\ has_code_block(ta.lines) /\ ~try_get
                      THEN "highlight_code" ELSE "events"
        /\ UNCHANGED <<original_content, should_quit, file_content, write_failed,
                       syntax_set, theme_set, warm_pc, edits>>
        /\ UNCHANGED <<mode, term, tblVars, mdVars, modalVars, wrapVars, imgVars>>

\* render_frame, where what is drawn is not followed.
EdRenderFrame == render /\ UNCHANGED viewVars

\* highlight_code on the render thread: syntax_set() and theme_set() each
\* run the initializer or wait for the other thread's; when both statics are
\* full the layout goes on and the frame is finished.
HighlightCode ==
    /\ loop_pc = "highlight_code"
    /\ \/ /\ syntax_set \in {"uninit", "by_render"}
          /\ syntax_set' = IF syntax_set = "uninit" THEN "by_render" ELSE "ready"
          /\ UNCHANGED <<theme_set, loop_pc>>
       \/ /\ syntax_set = "ready"
          /\ theme_set \in {"uninit", "by_render"}
          /\ theme_set' = IF theme_set = "uninit" THEN "by_render" ELSE "ready"
          /\ UNCHANGED <<syntax_set, loop_pc>>
       \/ /\ try_get
          /\ loop_pc' = "events"
          /\ UNCHANGED <<syntax_set, theme_set>>
    /\ UNCHANGED <<textarea, modified, original_content, wrapped_original,
                   last_wrap_width, should_quit, file_content, write_failed,
                   code_fence_regions, code_fence_highlights, code_fence_dirty,
                   warm_pc, overlay, edits>>
    /\ UNCHANGED <<mode, term, content_area, viewport_height, tblVars, mdVars, viewVars, modalVars, wrapVars, imgVars>>

\* An edit of the buffer in handle_editor_key / handle_paste: the TextArea
\* changes, update_modified runs and sets the dirty flag.
Edited(ta) ==
    /\ textarea' = ta
    /\ modified' = update_modified(ta, wrapped_original)
    /\ code_fence_dirty' = TRUE
    /\ UNCHANGED <<original_content, wrapped_original, last_wrap_width,
                   should_quit, file_content, write_failed, code_fence_regions,
                   code_fence_highlights, syntax_set, theme_set, warm_pc, overlay>>
    /\ UNCHANGED <<appVars, tblVars, mdVars, viewVars, modalVars, wrapVars, imgVars>>

\* handle_editor_key, a character key or Backspace: textarea.input(input),
\* update_modified, auto_wrap_line.  update_modified sees the buffer before
\* auto_wrap_line splits the line.
KeyInput ==
    /\ loop_pc = "events"
    /\ mode = "Editor"
    /\ edits < MaxEdits
    /\ edits' = edits + 1
    /\ \E typed \in {insert_str(textarea, <<c>>) : c \in KeyChars}
                    \cup {delete_char(textarea)} :
        /\ textarea' = auto_wrap_line(typed, content_area, WRAP_LIMIT)
        /\ modified' = update_modified(typed, wrapped_original)
    /\ code_fence_dirty' = TRUE
    /\ UNCHANGED <<original_content, wrapped_original, last_wrap_width,
                   should_quit, file_content, write_failed, code_fence_regions,
                   code_fence_highlights, syntax_set, theme_set, warm_pc, overlay>>
    /\ UNCHANGED <<appVars, tblVars, mdVars, viewVars, modalVars, wrapVars, imgVars>>

\* handle_paste (bracketed paste) in the editor: insert_str,
\* update_modified, auto_wrap_line.
Paste ==
    /\ loop_pc = "events"
    /\ mode = "Editor"
    /\ edits < MaxEdits
    /\ edits' = edits + 1
    /\ \E text \in PasteTexts :
        /\ textarea' = auto_wrap_line(insert_str(textarea, text), content_area,
                                      WRAP_LIMIT)
        /\ modified' = update_modified(insert_str(textarea, text), wrapped_original)
    /\ code_fence_dirty' = TRUE
    /\ UNCHANGED <<original_content, wrapped_original, last_wrap_width,
                   should_quit, file_content, write_failed, code_fence_regions,
                   code_fence_highlights, syntax_set, theme_set, warm_pc, overlay>>
    /\ UNCHANGED <<appVars, tblVars, mdVars, viewVars, modalVars, wrapVars, imgVars>>

\* handle_editor_key, Ctrl+Z and Ctrl+Y: undo / redo, then update_modified.
UndoRedo ==
    /\ loop_pc = "events"
    /\ mode = "Editor"
    /\ \E ta \in {undo(textarea), redo(textarea)} : Edited(ta)
    /\ UNCHANGED edits

\* handle_key, Tab
EdKeyTab ==
    /\ loop_pc = "events"
    /\ mode' = IF mode = "Editor" THEN "Preview" ELSE "Editor"
    /\ UNCHANGED <<loop_pc, term, content_area, viewport_height>>
    /\ UNCHANGED <<edVars, tblVars, mdVars, viewVars, modalVars, wrapVars, imgVars>>

\* Event::Resize
EdResize ==
    /\ loop_pc = "events"
    /\ \E size \in EdTermSizes \ {term} : term' = size
    /\ UNCHANGED <<loop_pc, mode, content_area, viewport_height>>
    /\ UNCHANGED <<edVars, tblVars, mdVars, viewVars, modalVars, wrapVars, imgVars>>

\* save: format, rebuild the TextArea if the content changed, write the
\* file; on success the saved content becomes original_content and the
\* modified flag is cleared.  q is TRUE when Ctrl+Q called it.
Save(ok, q) ==
    LET ta == save_format(textarea, content_area)
        save_content == join(ta.lines)
    IN  /\ textarea' = ta
        /\ file_content' = IF ok THEN save_content ELSE file_content
        /\ original_content' = IF ok THEN save_content ELSE original_content
        /\ modified' = IF ok THEN FALSE ELSE modified
        /\ write_failed' = (write_failed \/ ~ok)
        /\ should_quit' = q
        /\ loop_pc' = IF q THEN "exit" ELSE loop_pc
        /\ UNCHANGED <<wrapped_original, last_wrap_width, code_fence_regions,
                       code_fence_highlights, code_fence_dirty, syntax_set,
                       theme_set, warm_pc, overlay, edits>>
        /\ UNCHANGED <<mode, term, content_area, viewport_height, tblVars, mdVars, viewVars, modalVars, wrapVars, imgVars>>

\* handle_key, Ctrl+S
CtrlS ==
    /\ loop_pc = "events"
    /\ \E ok \in BOOLEAN : Save(ok, FALSE)

\* handle_key, Ctrl+Q: `if self.modified { self.save(); }`, then should_quit.
CtrlQ ==
    /\ loop_pc = "events"
    /\ IF modified
       THEN \E ok \in BOOLEAN : Save(ok, TRUE)
       ELSE /\ should_quit' = TRUE
            /\ loop_pc' = "exit"
            /\ UNCHANGED <<textarea, modified, original_content, wrapped_original,
                           last_wrap_width, file_content, write_failed,
                           code_fence_regions, code_fence_highlights,
                           code_fence_dirty, syntax_set, theme_set, warm_pc,
                           overlay, edits>>
            /\ UNCHANGED <<mode, term, content_area, viewport_height, tblVars, mdVars, viewVars, modalVars, wrapVars,
                           imgVars>>

NextEditor ==
    \/ WarmLoad
    \/ EdRenderFrame
    \/ HighlightCode
    \/ KeyInput
    \/ Paste
    \/ UndoRedo
    \/ EdKeyTab
    \/ EdResize
    \/ CtrlS
    \/ CtrlQ

\* render_table, the lines pushed for `num_rows` rows of which the first
\* `header_count` are the header: one line per row, each cell padded or cut to
\* its column's width, and a separator line after the last header row.
render_table_lines(col_widths, num_rows, header_count, bq_depth) ==
    LET n == Len(col_widths)
        row == [kind |-> "row",
                width |-> bq_depth * 2 + 2 + SumSeq(col_widths) + 3 * (n - 1) + 2]
        sep == [kind |-> "separator",
                width |-> bq_depth * 2 + 1 + SumSeq(col_widths) + 2 * n + n]
    IN  Flatten([i \in 1..num_rows |->
                    IF i = header_count THEN <<row, sep>> ELSE <<row>>])

\* push_blank_line
blank_line(bq_depth) == [kind |-> "blank", width |-> bq_depth * 2]

\* render_markdown of a table of one header row and body_rows body rows
\* whose columns have the natural widths `natural`: table_header_count is 1
\* at TagEnd::TableHead, and TagEnd::Table calls render_table and then
\* push_blank_line.
render_markdown_table(natural, body_rows, width, checked) ==
    LET out == render_col_widths(natural, width, 0, checked)
    IN  IF out.panicked THEN <<>>
        ELSE render_table_lines(out.widths, 1 + body_rows, 1, 0) \o <<blank_line(0)>>

InitTable ==
    /\ MdIdle
    /\ ViewIdle
    /\ ModalIdle
    /\ tbl_natural \in NaturalInputs
    /\ tbl_width \in 0..MaxTermWidth
    /\ tbl_bq \in 0..MaxBqDepth
    /\ overflow_checks \in BOOLEAN
    /\ tbl_fn = "none"
    /\ tbl_out = NoOutcome
    /\ tbl_body_rows \in 0..MaxBodyRows
    /\ tbl_lines = <<>>
    /\ AppNew
    /\ ImageNew
    /\ term = [width |-> MaxTermCols, height |-> MaxTermRows]
    /\ doc = <<>>
    /\ disk = {}
    /\ picker = FALSE
    /\ EditorIdle
    /\ WrapIdle

TblDistribute ==
    /\ tbl_fn = "none"
    /\ tbl_fn' = "distribute_widths"
    /\ tbl_out' = distribute_widths(tbl_natural, FormatAvailable, overflow_checks)
    /\ UNCHANGED <<tbl_natural, tbl_width, tbl_bq, overflow_checks, tbl_body_rows,
                   tbl_lines, appVars, imgVars, edVars, wrapVars, modalVars, viewVars, mdVars>>

TblShrink ==
    /\ tbl_fn = "none"
    /\ tbl_fn' = "shrink_widths"
    /\ tbl_out' = shrink_widths(tbl_natural, FormatAvailable)
    /\ UNCHANGED <<tbl_natural, tbl_width, tbl_bq, overflow_checks, tbl_body_rows,
                   tbl_lines, appVars, imgVars, edVars, wrapVars, modalVars, viewVars, mdVars>>

TblFormat ==
    /\ tbl_fn = "none"
    /\ tbl_fn' = "try_format_table"
    /\ tbl_out' = format_col_widths(tbl_natural, tbl_width, overflow_checks)
    /\ UNCHANGED <<tbl_natural, tbl_width, tbl_bq, overflow_checks, tbl_body_rows,
                   tbl_lines, appVars, imgVars, edVars, wrapVars, modalVars, viewVars, mdVars>>

TblRender ==
    /\ tbl_fn = "none"
    /\ tbl_fn' = "render_table"
    /\ tbl_out' = render_col_widths(tbl_natural, tbl_width, tbl_bq, overflow_checks)
    /\ UNCHANGED <<tbl_natural, tbl_width, tbl_bq, overflow_checks, tbl_body_rows,
                   tbl_lines, appVars, imgVars, edVars, wrapVars, modalVars, viewVars, mdVars>>

\* render_markdown of a document that is one table, outside any blockquote:
\* Tag::TableHead and each Tag::TableRow push a row, TagEnd::Table renders
\* the rows and pushes a blank line.  A panic leaves no lines.
TblLayout ==
    /\ tbl_fn = "none"
    /\ tbl_fn' = "render_markdown"
    /\ tbl_out' = render_col_widths(tbl_natural, tbl_width, 0, overflow_checks)
    /\ tbl_lines' = render_markdown_table(tbl_natural, tbl_body_rows, tbl_width,
                                          overflow_checks)
    /\ UNCHANGED <<tbl_natural, tbl_width, tbl_bq, overflow_checks, tbl_body_rows,
                   appVars, imgVars, edVars, wrapVars, modalVars, viewVars, mdVars>>

NextTable == TblDistribute \/ TblShrink \/ TblFormat \/ TblRender \/ TblLayout

SpecTable == InitTable /\ [][NextTable]_vars

SpecImage == InitImage /\ [][NextImage]_vars

SpecEditor == InitEditor /\ [][NextEditor]_vars

(***************************************************************************)
(* The help modal and the rename input (input.rs handle_key, handle_paste, *)
(* handle_mouse; rename.rs).                                               *)
(***************************************************************************)
\* The longest rename buffer and the longest path followed.
MaxRenameLen == 2

MaxPathLen == 2

SEP == "/"

\* The keys pressed.  Outside a modal, "a" and "Backspace" are the editing
\* keys of handle_editor_key; the keys without a branch here are not pressed.
Keys == {"CtrlQ", "CtrlS", "CtrlT", "F1", "Tab", "Esc", "Enter", "Backspace",
         "Delete", "Left", "Right", "Home", "End", "a", SEP}

\* The keys pressed while the help modal is shown.
HelpKeys == {"CtrlQ", "CtrlS", "CtrlT", "Esc", "Tab", "a"}

\* The keys pressed while the rename input is active.
RenameKeys == {"CtrlQ", "Tab", "Esc", "Enter", "Backspace", "Delete", "Left",
               "Right", "Home", "End", "a", SEP}

\* key.code of a key: a character key is KeyCode::Char whatever its
\* modifiers are.
key_char(k) ==
    CASE k = "CtrlQ" -> <<"q">>
      [] k = "CtrlS" -> <<"s">>
      [] k = "CtrlT" -> <<"t">>
      [] k \in {"a", SEP} -> <<k>>
      [] k = "eacute" -> <<"eacute">>
      [] OTHER -> <<>>

\* The texts of the paste events while the rename input is active.
RenamePastes == {<<SEP, NL>>}

\* Path::file_name: the last component, None for a path without one.
RECURSIVE strip_seps(_)
strip_seps(path) ==
    IF Len(path) > 0 /\ path[Len(path)] = SEP
    THEN strip_seps(SubSeq(path, 1, Len(path) - 1))
    ELSE path

last_sep(path) ==
    LET at == {i \in 1..Len(path) : path[i] = SEP}
    IN  IF at = {} THEN 0 ELSE CHOOSE i \in at : \A j \in at : j <= i

file_name(path) ==
    LET p == strip_seps(path)
    IN  IF p = <<>> THEN {} ELSE {SubSeq(p, last_sep(p) + 1, Len(p))}

\* Path::with_file_name: the file name is popped and `name` pushed; pushing
\* an absolute name replaces the path.
with_file_name(path, name) ==
    LET p == strip_seps(path)
        parent == IF file_name(path) = {} THEN path ELSE SubSeq(p, 1, last_sep(p))
    IN  IF Len(name) > 0 /\ name[1] = SEP THEN name
        ELSE IF parent = <<>> \/ parent[Len(parent)] = SEP THEN parent \o name
        ELSE parent \o <<SEP>> \o name

Untitled == <<"u", "n", "t", "i", "t", "l", "e", "d">>

\* A String is the sequence of the bytes of its UTF-8 encoding.  The
\* character U+00E9 is the two bytes C3 A9; every other character followed
\* is one byte, written as the character.
LEAD == "C3"

CONT == "A9"

utf8(ch) == IF ch = "eacute" THEN <<LEAD, CONT>> ELSE <<ch>>

RECURSIVE encode(_)
encode(chars) == IF chars = <<>> THEN <<>> ELSE utf8(Head(chars)) \o encode(Tail(chars))

\* str::is_char_boundary
is_char_boundary(s, at) ==
    \/ at = 0
    \/ at = Len(s)
    \/ at < Len(s) /\ s[at + 1] # CONT

\* The byte offset after the character that starts at offset `at`.
char_end(s, at) ==
    CHOOSE j \in (at + 1)..Len(s) :
        /\ is_char_boundary(s, j)
        /\ \A i \in (at + 1)..(j - 1) : ~is_char_boundary(s, i)

\* String::insert and String::remove at a byte offset: both panic at an
\* offset that is not a character boundary, remove also at the end.
insert_at(s, at, chars) == SubSeq(s, 1, at) \o encode(chars) \o SubSeq(s, at + 1, Len(s))

remove_at(s, at) == SubSeq(s, 1, at) \o SubSeq(s, char_end(s, at) + 1, Len(s))

insert_panics(s, at) == ~is_char_boundary(s, at)

remove_panics(s, at) == at >= Len(s) \/ ~is_char_boundary(s, at)

\* start_rename
start_rename ==
    LET filename == IF file_name(app_file_path) = {} THEN Untitled
                    ELSE CHOOSE n \in file_name(app_file_path) : TRUE
    IN  /\ rename_buf' = filename
        /\ rename_cursor' = Len(filename)
        /\ renaming' = TRUE

\* confirm_rename of a plain markdown file: fs::rename answers `ok`.
confirm_rename(ok) ==
    LET new_name == trim(rename_buf)
        current_name == IF file_name(app_file_path) = {} THEN <<>>
                        ELSE CHOOSE n \in file_name(app_file_path) : TRUE
        new_path == with_file_name(app_file_path, new_name)
    IN  /\ renaming' = FALSE
        /\ app_file_path' = IF new_name # <<>> /\ new_name # current_name /\ ok
                            THEN new_path ELSE app_file_path
        /\ UNCHANGED <<rename_buf, rename_cursor>>

\* The answers fs::rename can give: a file cannot be renamed to a path that
\* ends in a separator, and the paths followed are at most MaxPathLen long.
rename_answers(new_path) ==
    IF new_path = <<>> \/ new_path[Len(new_path)] = SEP \/ Len(new_path) > MaxPathLen
    THEN {FALSE} ELSE BOOLEAN

\* The characters the rename input refuses from the keyboard.
rejected_char(ch) == ch = SEP \/ ch = "\\"

\* handle_rename_key: the keys at which String::insert or String::remove
\* panics.
rename_panics(k) ==
    CASE k = "Backspace" ->
            rename_cursor > 0 /\ remove_panics(rename_buf, rename_cursor - 1)
      [] k = "Delete" ->
            rename_cursor < Len(rename_buf) /\ remove_panics(rename_buf, rename_cursor)
      [] k \notin {"Esc", "Enter", "Left", "Right", "Home", "End"}
           /\ key_char(k) # <<>> ->
            ~rejected_char(key_char(k)[1]) /\ insert_panics(rename_buf, rename_cursor)
      [] OTHER -> FALSE

\* handle_rename_key
handle_rename_key(k) ==
    CASE k = "Esc" ->
            /\ renaming' = FALSE
            /\ rename_buf' = <<>>
            /\ UNCHANGED <<rename_cursor, app_file_path>>
      [] k = "Enter" ->
            \E ok \in rename_answers(with_file_name(app_file_path, trim(rename_buf))) :
                confirm_rename(ok)
      [] k = "Backspace" ->
            /\ rename_cursor' = IF rename_cursor > 0 THEN rename_cursor - 1
                                ELSE rename_cursor
            /\ rename_buf' = IF rename_cursor > 0
                             THEN remove_at(rename_buf, rename_cursor - 1)
                             ELSE rename_buf
            /\ UNCHANGED <<renaming, app_file_path>>
      [] k = "Delete" ->
            /\ rename_buf' = IF rename_cursor < Len(rename_buf)
                             THEN remove_at(rename_buf, rename_cursor)
                             ELSE rename_buf
            /\ UNCHANGED <<renaming, rename_cursor, app_file_path>>
      [] k = "Left" ->
            /\ rename_cursor' = IF rename_cursor > 0 THEN rename_cursor - 1
                                ELSE rename_cursor
            /\ UNCHANGED <<renaming, rename_buf, app_file_path>>
      [] k = "Right" ->
            /\ rename_cursor' = IF rename_cursor < Len(rename_buf)
                                THEN rename_cursor + 1 ELSE rename_cursor
            /\ UNCHANGED <<renaming, rename_buf, app_file_path>>
      [] k = "Home" ->
            /\ rename_cursor' = 0
            /\ UNCHANGED <<renaming, rename_buf, app_file_path>>
      [] k = "End" ->
            /\ rename_cursor' = Len(rename_buf)
            /\ UNCHANGED <<renaming, rename_buf, app_file_path>>
      [] key_char(k) # <<>> ->
            IF rejected_char(key_char(k)[1])
            THEN UNCHANGED <<renaming, rename_buf, rename_cursor, app_file_path>>
            ELSE /\ Len(rename_buf) < MaxRenameLen
                 /\ rename_buf' = insert_at(rename_buf, rename_cursor, key_char(k))
                 /\ rename_cursor' = rename_cursor + 1
                 /\ UNCHANGED <<renaming, app_file_path>>
      [] OTHER -> UNCHANGED <<renaming, rename_buf, rename_cursor, app_file_path>>

\* handle_key, Ctrl+T
KeyCtrlT ==
    /\ start_rename
    /\ UNCHANGED <<show_help, app_file_path, last_key>>
    /\ UNCHANGED <<appVars, edVars, tblVars, mdVars, viewVars, wrapVars, imgVars>>

\* handle_key, F1
KeyF1 ==
    /\ show_help' = TRUE
    /\ UNCHANGED <<renaming, rename_buf, rename_cursor, app_file_path, last_key>>
    /\ UNCHANGED <<appVars, edVars, tblVars, mdVars, viewVars, wrapVars, imgVars>>

\* handle_key, Esc without modifiers: back to the editor.
KeyEsc ==
    /\ mode' = "Editor"
    /\ UNCHANGED <<loop_pc, term, content_area, viewport_height>>
    /\ UNCHANGED <<edVars, tblVars, mdVars, viewVars, modalVars, wrapVars, imgVars>>

\* handle_key without its modal checks.
no_modal_check == FALSE

\* Whether handle_key stops at the help modal.
help_swallows == show_help

\* Whether handle_key stops at the rename input.
rename_swallows == renaming

\* handle_key
handle_key(k) ==
    /\ loop_pc = "events"
    /\ IF help_swallows
       THEN /\ show_help' = FALSE
            /\ last_key' = [code |-> k, help |-> TRUE]
            /\ UNCHANGED <<renaming, rename_buf, rename_cursor, app_file_path>>
            /\ UNCHANGED <<appVars, edVars, tblVars, mdVars, viewVars, wrapVars, imgVars>>
       ELSE IF rename_swallows
       THEN /\ IF rename_panics(k)
               THEN /\ loop_pc' = "panicked"
                    /\ UNCHANGED <<renaming, rename_buf, rename_cursor, app_file_path>>
               ELSE /\ handle_rename_key(k)
                    /\ UNCHANGED loop_pc
            /\ UNCHANGED <<show_help, last_key>>
            /\ UNCHANGED <<mode, term, content_area, viewport_height>>
            /\ UNCHANGED <<edVars, tblVars, mdVars, viewVars, wrapVars, imgVars>>
       ELSE CASE k = "Esc" -> KeyEsc
              [] k = "CtrlQ" -> CtrlQ
              [] k = "CtrlS" -> CtrlS
              [] k = "CtrlT" -> KeyCtrlT
              [] k = "F1" -> KeyF1
              [] k = "Tab" -> EdKeyTab
              [] k \in {"a", "Backspace"} -> KeyInput
              [] OTHER -> FALSE

\* Event::Key
ModalKey ==
    \E k \in Keys :
        /\ show_help => k \in HelpKeys
        /\ ~show_help /\ renaming => k \in RenameKeys
        /\ handle_key(k)

\* handle_paste while renaming, the loop over the characters of the text:
\* every character but a line break is inserted at the cursor and the
\* cursor moves on by one.
RECURSIVE paste_rename(_, _, _)
paste_rename(buf, cursor, text) ==
    IF text = <<>> THEN [buf |-> buf, cursor |-> cursor, panicked |-> FALSE]
    ELSE IF Head(text) = NL \/ Head(text) = "\r"
    THEN paste_rename(buf, cursor, Tail(text))
    ELSE IF insert_panics(buf, cursor)
    THEN [buf |-> buf, cursor |-> cursor, panicked |-> TRUE]
    ELSE paste_rename(insert_at(buf, cursor, <<Head(text)>>), cursor + 1, Tail(text))

\* Event::Paste: handle_paste
handle_paste(text) ==
    /\ loop_pc = "events"
    /\ IF renaming
       THEN /\ Len(paste_rename(rename_buf, rename_cursor, text).buf) <= MaxRenameLen
            /\ rename_buf' = paste_rename(rename_buf, rename_cursor, text).buf
            /\ rename_cursor' = paste_rename(rename_buf, rename_cursor, text).cursor
            /\ loop_pc' = IF paste_rename(rename_buf, rename_cursor, text).panicked
                          THEN "panicked" ELSE loop_pc
            /\ UNCHANGED <<show_help, renaming, app_file_path, last_key>>
            /\ UNCHANGED <<mode, term, content_area, viewport_height>>
            /\ UNCHANGED <<edVars, tblVars, mdVars, viewVars, wrapVars, imgVars>>
       ELSE Paste

ModalPaste == \E text \in RenamePastes : handle_paste(text)

\* Event::Mouse, a left click on the header's filename: handle_mouse
ClickFilename ==
    /\ loop_pc = "events"
    /\ start_rename
    /\ UNCHANGED <<show_help, app_file_path, last_key>>
    /\ UNCHANGED <<appVars, edVars, tblVars, mdVars, viewVars, wrapVars, imgVars>>

\* One file of one line, opened in a terminal of one size, the syntax
\* databases loaded.
InitModal ==
    /\ MdIdle
    /\ ViewIdle
    /\ ModalIdle
    /\ TableIdle
    /\ WrapIdle
    /\ AppNew
    /\ ImageNew
    /\ doc = <<>>
    /\ disk = {}
    /\ picker = FALSE
    /\ term = [width |-> MaxEdCols, height |-> MaxTermRows]
    /\ file_content = <<"a">>
    /\ AppLoaded(<<"a">>)
    /\ write_failed = FALSE
    /\ syntax_set = "ready"
    /\ theme_set = "ready"
    /\ warm_pc = "done"
    /\ overlay = NoOverlay
    /\ edits = 0

NextModal ==
    \/ EdRenderFrame
    \/ ModalKey
    \/ ModalPaste
    \/ ClickFilename

SpecModal == InitModal /\ [][NextModal]_vars

(***************************************************************************)
(* The frames render_frame draws (render.rs render_frame, render;          *)
(* mod.rs tick; renderer.rs render_markdown; code_highlight.rs).           *)
(***************************************************************************)
\* str::split_inclusive(' ')
RECURSIVE split_inclusive(_, _)
split_inclusive(text, word) ==
    IF text = <<>> THEN (IF word = <<>> THEN <<>> ELSE <<word>>)
    ELSE IF Head(text) = SP
         THEN <<Append(word, SP)>> \o split_inclusive(Tail(text), <<>>)
    ELSE split_inclusive(Tail(text), Append(word, Head(text)))

\* word_wrap's loop over the words, for a text that starts its line.
RECURSIVE wrap_words(_, _, _, _)
wrap_words(words, max_width, current, col) ==
    IF words = <<>> THEN (IF current = <<>> THEN <<>> ELSE <<current>>)
    ELSE IF col + Len(Head(words)) > max_width /\ current # <<>>
         THEN <<current>> \o wrap_words(Tail(words), max_width, Head(words),
                                        Len(Head(words)))
    ELSE wrap_words(Tail(words), max_width, current \o Head(words),
                    col + Len(Head(words)))

\* word_wrap
word_wrap(text, max_width) ==
    IF Len(text) <= max_width \/ wrap_words(split_inclusive(text, <<>>), max_width, <<>>, 0) = <<>>
    THEN <<text>>
    ELSE wrap_words(split_inclusive(text, <<>>), max_width, <<>>, 0)

\* A variant of highlight_code that colours a line only when the databases
\* are already loaded.
code_style_if_loaded == IF try_get THEN "syntect" ELSE "plain"

\* highlight_code colours a line with the databases syntax_set() and
\* theme_set() return, which are the loaded ones whoever loaded them.
code_style == "syntect"

\* highlight_code, one line of the block: its text, its colours and the
\* padding of pad_to_width (the line starts with two spaces).
code_line(text, width) ==
    [text |-> text, style |-> code_style, pad |-> SatSub(width, 2 + Len(text))]

\* Whether line i (0-based) lies inside one of the regions, and whether it is
\* one of their fence lines.
inside_fence(regions, i) ==
    \E r \in 1..Len(regions) : regions[r].start_line < i /\ i < regions[r].end_line

on_fence(regions, i, n) ==
    \E r \in 1..Len(regions) :
        \/ regions[r].start_line = i
        \/ regions[r].end_line = i /\ (i < n - 1 \/ regions[r].start_line = i)

\* The lines laid out for one line of the document: a line of a code block
\* as highlight_code returns it, a fence as a border, any other line as the
\* lines word_wrap cuts it into.
layout_line(ls, regions, i, width) ==
    IF inside_fence(regions, i - 1)
    THEN <<code_line(ls[i], width)>>
    ELSE IF starts_with(trim_start(ls[i]), Str3(BT))
    THEN <<[text |-> <<>>, style |-> "border", pad |-> 0]>>
    ELSE [k \in 1..Len(word_wrap(ls[i], width)) |->
             [text |-> word_wrap(ls[i], width)[k], style |-> "text", pad |-> 0]]

RECURSIVE layout_lines(_, _, _, _)
layout_lines(ls, regions, i, width) ==
    IF i > Len(ls) THEN <<>>
    ELSE layout_line(ls, regions, i, width) \o layout_lines(ls, regions, i + 1, width)

\* render_markdown for a document of one-line paragraphs and fenced code
\* blocks: it reads its two arguments and nothing else.
render_markdown(content, width) ==
    [lines |-> layout_lines(str_lines(content),
                            find_code_fence_regions(str_lines(content)), 1, width),
     link_urls |-> <<>>,
     image_infos |-> <<>>]

\* App::render: the cells of a frame, from the header, the content in the
\* current mode, the status bar and the help modal.
draw_cells(ta, is_modified, area, ov, msg) ==
    [header |-> <<file_name(app_file_path), is_modified, mode, renaming,
                  rename_buf, rename_cursor>>,
     content |-> IF mode = "Editor"
                 THEN [view |-> "Editor", lines |-> ta.lines, cursor |-> ta.cursor,
                       overlay |-> ov]
                 ELSE [view |-> "Preview", content |-> join(ta.lines),
                       width |-> SatSub(area.width, 2),
                       rendered |-> render_markdown(join(ta.lines),
                                                    SatSub(area.width, 2))],
     status |-> <<ta.cursor, msg, is_modified>>,
     help |-> show_help]

\* A variant of tick that clears the status message at once.
tick_status_cleared(msg, expired) == ""

\* tick: the status message is cleared when STATUS_DURATION has passed since
\* it was set.
tick_status(msg, expired) == IF expired THEN "" ELSE msg

\* What an input event or a background thread can change between two frames.
frame_inputs == <<mode, term, edVars, modalVars>>

\* No input event and no background result since the latest frame.
idle_since_frame == frame_buf.drawn /\ frame_inputs = frame_buf.after

\* render_frame: terminal.draw(render), then tick.
render_frame ==
    /\ render
    /\ \E expired \in (IF status_message = "" THEN {FALSE} ELSE BOOLEAN) :
        /\ status_message' = tick_status(status_message, expired)
        /\ frame_buf' = [drawn |-> TRUE,
                         cells |-> draw_cells(textarea', modified', content_area',
                                              overlay', status_message),
                         expired |-> expired,
                         ready |-> try_get,
                         idle |-> idle_since_frame,
                         after |-> frame_inputs']
    /\ UNCHANGED <<link_lines, link_painted, click_links>>

InitFrame ==
    /\ MdIdle
    /\ ModalIdle
    /\ ViewIdle
    /\ TableIdle
    /\ WrapIdle
    /\ AppNew
    /\ ImageNew
    /\ doc = <<>>
    /\ disk = {}
    /\ picker = FALSE
    /\ term \in EdTermSizes
    /\ \E content \in Documents : file_content = content /\ AppLoaded(content)
    /\ write_failed = FALSE
    /\ syntax_set = "uninit"
    /\ theme_set = "uninit"
    /\ warm_pc = "syntax_set"
    /\ overlay = NoOverlay
    /\ edits = 0

NextFrame ==
    \/ render_frame
    \/ WarmLoad
    \/ HighlightCode
    \/ KeyInput
    \/ EdKeyTab
    \/ EdResize

SpecFrame == InitFrame /\ [][NextFrame]_vars

C23_HelpKeyOnlyDismisses ==
    [][(show_help /\ ModalKey) =>
           /\ show_help' = FALSE
           /\ mode' = mode
           /\ should_quit' = should_quit
           /\ <<renaming, rename_buf, rename_cursor>>'
                  = <<renaming, rename_buf, rename_cursor>>
           /\ textarea' = textarea
           /\ modified' = modified
           /\ file_content' = file_content
           /\ app_file_path' = app_file_path]_vars

\* Ctrl+Q was pressed while the help modal was shown; the application has
\* not quit.
C23_Witness ==
    /\ last_key = [code |-> "CtrlQ", help |-> TRUE]
    /\ ~show_help
    /\ ~should_quit
    /\ loop_pc # "exit"

\* What C24 says of a key press: the mode, should_quit and the editor's
\* buffer are what they were, and Esc leaves rename mode with the same path.
rename_consumes ==
    /\ mode' = mode
    /\ should_quit' = should_quit
    /\ textarea' = textarea
    /\ handle_key("Esc") => (~renaming' /\ app_file_path' = app_file_path)

C25_NoSeparatorInRenameBuf ==
    renaming => \A i \in 1..Len(rename_buf) : ~rejected_char(rename_buf[i])

(***************************************************************************)
(* Claims about the table negotiator (checked under SpecTable).            *)
(***************************************************************************)
\* The available content width of the computation that ran.
TblAvailable == IF tbl_fn = "render_table" THEN RenderAvailable ELSE FormatAvailable

TblExpandCase ==
    /\ tbl_fn \in {"distribute_widths", "try_format_table", "render_table"}
    /\ TblAvailable > SumSeq(tbl_natural)

TblShrinkCase ==
    /\ tbl_fn \in {"shrink_widths", "try_format_table", "render_table"}
    /\ SumSeq(tbl_natural) > TblAvailable
    /\ TblAvailable > 0

\* C4: when the available content width exceeds the natural total, the
\* computed widths sum exactly to the available width and no column is
\* narrower than its natural width, for any number of columns.
C4_ExpandSumsToAvailable ==
    TblExpandCase =>
        /\ ~tbl_out.panicked
        /\ ~tbl_out.wrapped
        /\ SumSeq(tbl_out.widths) = TblAvailable
        /\ \A i \in 1..Len(tbl_natural) : tbl_out.widths[i] >= tbl_natural[i]

\* C5: when the natural total exceeds the available content width, the shrunk
\* widths sum to at most the available width.  Stated here only for widths
\* that leave every column its 3-character minimum, where the bound is
\* attainable.
C5_ShrinkFitsAvailable ==
    (TblShrinkCase /\ TblAvailable >= MIN_COL * Len(tbl_natural)) =>
        /\ \A i \in 1..Len(tbl_natural) : tbl_out.widths[i] >= MIN_COL
        /\ SumSeq(tbl_out.widths) <= TblAvailable

(***************************************************************************)
(* Claims about the image pipeline (checked under SpecImage).              *)
(***************************************************************************)
\* The decodes in flight for a path: threads that started and have not sent,
\* and messages sent that poll_decoded_images has not drained.
InFlight(p) ==
    render_workers[p]
    + paste_workers[<<p, "spawned">>] + paste_workers[<<p, "written">>]
    + Cardinality({i \in DOMAIN image_rx : image_rx[i].path = p})

\* C1: at any time at most one background decode is in flight per path.
C1_OneDecodeInFlightPerPath == \A p \in Paths : InFlight(p) <= 1

\* C2: once a result (an image or a failure) is stored for a path, no later
\* render dispatches another decode for it; a failed decode is never retried.
C2_NoDecodeAfterResult ==
    [][\A p \in Paths :
          Has(image_decode_cache, p) => render_workers'[p] <= render_workers[p]]_vars

\* A preview render pushed a job for a path whose stored result is a failure.
C2_Witness ==
    \E p \in last_render.job_paths :
        Has(image_decode_cache, p) /\ Get(image_decode_cache, p) = "none"

\* C9: every half-block draw takes a resize-cache entry whose dimensions are
\* the requested ones, area.width - 1 by 2 * line_count.
C9_HalfBlockEntryMatchesRequest ==
    \A d \in last_render.halfblock :
        /\ d.entry = <<d.full_cols, 2 * d.line_count>>
        /\ d.full_cols = last_area.width - 1

\* A half-block draw in a call that found an entry of other dimensions.
C9_Witness ==
    \E d \in last_render.halfblock : d.prior # <<>> /\ d.prior # d.entry

\* C10: in a render call whose area differs in width or height from the
\* previous one, every protocol entry used for drawing was created during
\* that call.
C10_ProtocolsRebuiltOnAreaChange ==
    last_render.area_changed => last_gfx_paths \subseteq last_render.created

\* Such a call drew a path that held a protocol entry when it started.
C10_Witness ==
    /\ last_render.area_changed
    /\ last_gfx_paths \cap last_render.proto_before # {}

(***************************************************************************)
(* The editor: quitting, the modified flag, highlighting.                  *)
(***************************************************************************)
\* The content of the file as the editor shows it at the current wrap width.
SavedAsWrapped == hard_wrap(file_content, last_wrap_width)

\* C3: when Ctrl+Q has set should_quit and no write of the file failed, the
\* file on disk holds the content of the editor buffer (as wrapped at the
\* current wrap width).
C3_QuitLeavesBufferOnDisk ==
    (should_quit /\ ~write_failed) => join(textarea.lines) = SavedAsWrapped

\* C6: the render thread is never inside highlight_code running or awaiting
\* the load of the syntax / theme databases.
C6_RenderNeverLoadsDatabases == loop_pc # "highlight_code"

\* C7: the code-fence regions and highlights an editor frame overlays are
\* the ones of the buffer that frame shows.
C7_OverlayFromCurrentBuffer ==
    overlay.drawn =>
        /\ overlay.regions = find_code_fence_regions(overlay.lines)
        /\ overlay.highlights = highlight_code_regions(overlay.regions, overlay.lines)

\* C8: once the first frame has wrapped the buffer, the modified flag is
\* TRUE exactly when the buffer differs from the content last loaded from
\* or written to the file, wrapped at the current wrap width.
C8_ModifiedIffDiffersFromSaved ==
    last_wrap_width > 0 =>
        (modified <=> join(textarea.lines) # SavedAsWrapped)

(***************************************************************************)
(* The image caches after a render call.                                   *)
(***************************************************************************)
\* C11: when render returns, the protocol cache holds only paths drawn
\* through the graphics protocol in that call, so a path drawn that way in
\* the previous frame and not in this one has lost its protocol.
C11_ProtocolsOnlyOfThisFrame == last_render.proto_after \subseteq last_gfx_paths

\* A frame that found a protocol of the same area and did not draw its path.
C11_Witness ==
    /\ ~last_render.area_changed
    /\ last_render.proto_before \ last_gfx_paths # {}

\* C12: a path has a resize-cache entry or a protocol-cache entry only
\* while the decode cache holds a decoded image (not a failure) for it.
C12_DerivedEntriesNeedDecodedImage ==
    \A p \in Paths :
        (Has(resize_cache, p) \/ p \in protocol_cache) =>
            /\ Has(image_decode_cache, p)
            /\ Get(image_decode_cache, p) = "img"

\* A path that has both a resize entry and a protocol.
C12_Witness == \E p \in Paths : Has(resize_cache, p) /\ p \in protocol_cache

\* The URLs of the document whose placeholder a render call for the current
\* terminal size and scroll offset finds visible.
VisibleUrls ==
    {image_infos(doc)[i].url : i \in
        {j \in 1..Len(doc) :
            placeholder_visible(image_infos(doc)[j], chunks2(term), scroll_offset)}}

MaxWrapLines == 4

MaxWrapWidth == 3

\* One line of each kind hard_wrap tells apart: short and long prose, a
\* word longer than the width, fence delimiters with and without an info
\* string, a heading, a table row, a list item and a separator row.
WrapSamples ==
    { <<"a">>,
      <<"a", "a", SP, "a">>,
      <<"a", "a", "a", "a">>,
      Str3(BT),
      Str3(BT) \o <<"a">>,
      Str3("~"),
      <<"#", SP, "a", "a", SP, "a">>,
      <<"|", SP, "a", SP, "a">>,
      <<"-", SP, "a", "a", "a">>,
      <<"-", "|", "-">> }

\* The contents of n lines, with a final line break or without.
WrapContents(n) ==
    {join(ls) : ls \in [1..n -> WrapSamples]}
        \cup {join(ls) \o <<NL>> : ls \in [1..n -> WrapSamples]}

InitWrap ==
    /\ MdIdle
    /\ ViewIdle
    /\ ModalIdle
    /\ \E n \in 0..MaxWrapLines : wrap_content \in WrapContents(n)
    /\ wrap_width \in 0..MaxWrapWidth
    /\ wrap_out = NoWrapOut
    /\ TableIdle
    /\ AppNew
    /\ ImageNew
    /\ term = [width |-> MaxTermCols, height |-> MaxTermRows]
    /\ doc = <<>>
    /\ disk = {}
    /\ picker = FALSE
    /\ EditorIdle

HardWrap ==
    /\ ~wrap_out.done
    /\ code_fence_dirty
    /\ wrap_out' = [done |-> TRUE,
                    text |-> hard_wrap(wrap_content, wrap_width),
                    pieces |-> IF wrap_width = 0 THEN <<>>
                               ELSE HardWrapPieces(str_lines(wrap_content), 1,
                                                   wrap_width, FALSE)]
    /\ UNCHANGED <<wrap_content, wrap_width, tblVars, mdVars, viewVars, modalVars, appVars, imgVars, edVars>>

\* find_code_fence_regions applied to the lines of the content.
FindCodeFenceRegions ==
    /\ ~wrap_out.done
    /\ code_fence_dirty
    /\ code_fence_regions' = find_code_fence_regions(str_lines(wrap_content))
    /\ code_fence_dirty' = FALSE
    /\ UNCHANGED <<textarea, modified, original_content, wrapped_original,
                   last_wrap_width, should_quit, file_content, write_failed,
                   code_fence_highlights, syntax_set, theme_set, warm_pc, overlay,
                   edits>>
    /\ UNCHANGED <<wrapVars, tblVars, mdVars, viewVars, modalVars, appVars, imgVars>>

NextWrap == HardWrap \/ FindCodeFenceRegions

SpecWrap == InitWrap /\ [][NextWrap]_vars

WrapInput == str_lines(wrap_content)

\* C14: hard_wrap(c, w) returns c unchanged for every content c in which
\* every line has length at most w (w > 0).
C14_FittingContentUnchanged ==
    (/\ wrap_out.done
     /\ wrap_width > 0
     /\ \A i \in 1..Len(WrapInput) : Len(WrapInput[i]) <= wrap_width)
    => wrap_out.text = wrap_content

\* [String]::join(" ")
RECURSIVE join_spaces(_)
join_spaces(ls) ==
    IF ls = <<>> THEN <<>>
    ELSE IF Len(ls) = 1 THEN ls[1]
    ELSE ls[1] \o <<SP>> \o join_spaces(Tail(ls))

\* A line with no list, quote, heading, table or fence marker.
PlainProse(line) ==
    LET rest == trim_start(line)
    IN  /\ ordered_marker(rest) < 0
        /\ \A b \in {"-", "*", "+"} : ~starts_with(rest, <<b, SP>>)
        /\ ~starts_with(rest, <<">">>)
        /\ ~starts_with(rest, <<"#">>)
        /\ ~contains(line, "|")
        /\ ~starts_with(rest, Str3(BT))
        /\ ~starts_with(rest, Str3("~"))

\* The words of the line are separated by single spaces, with no space
\* before the first or after the last, and each is shorter than width.
SingleSpacedShortWords(line, width) ==
    /\ line # <<>>
    /\ line[1] # SP
    /\ line[Len(line)] # SP
    /\ \A i \in 1..(Len(line) - 1) : ~(line[i] = SP /\ line[i + 1] = SP)
    /\ \A i \in 1..(Len(line) - width + 1) : \E k \in i..(i + width - 1) : line[k] = SP

fence_marker(line) ==
    \/ starts_with(trim_start(line), Str3(BT))
    \/ starts_with(trim_start(line), Str3("~"))

\* in_code_fence when the loop of hard_wrap reaches line i (1-based).
in_code_fence_at(ls, i) ==
    Cardinality({j \in 1..(i - 1) : fence_marker(ls[j])}) % 2 = 1

\* The lines hard_wrap never wraps: fence delimiters and the lines between
\* them, headings and table rows.
exempt_line(ls, i) ==
    \/ fence_marker(ls[i])
    \/ in_code_fence_at(ls, i)
    \/ starts_with(trim_start(ls[i]), <<"#">>)
    \/ contains(ls[i], "|") /\ is_separator_row(ls[i])
    \/ contains(ls[i], "|") /\ starts_with(trim_start(ls[i]), <<"|">>)

\* The rule of breaking a line: while the rest does not fit, break at the
\* last space within the span up to the boundary and go on after the spaces;
\* split at the boundary when the span holds no space.
RECURSIVE break_at_last_space(_, _, _, _)
break_at_last_space(remaining, width, continuation, is_first) ==
    LET prefix == IF is_first THEN <<>> ELSE continuation
        span == SubSeq(remaining, 1, Min(width - Len(prefix), Len(remaining)))
    IN  IF remaining = <<>> THEN <<>>
        ELSE IF Len(prefix) + Len(remaining) <= width \/ Len(prefix) >= width
        THEN <<prefix \o remaining>>
        ELSE IF contains(span, SP)
        THEN <<prefix \o SubSeq(remaining, 1, rfind_space(span))>>
             \o break_at_last_space(
                    trim_start(SubSeq(remaining, rfind_space(span) + 1, Len(remaining))),
                    width, continuation, FALSE)
        ELSE <<prefix \o span>>
             \o break_at_last_space(SubSeq(remaining, Len(span) + 1, Len(remaining)),
                                    width, continuation, FALSE)

\* C16: every line that hard_wrap(content, w) emits for a non-exempt input
\* line has length at most w, each break is at the last space at or before
\* the boundary, and a split at the boundary is made only when that span
\* contains no space.
C16_EmittedLinesFitAndBreakAtSpaces ==
    wrap_out.done /\ wrap_width > 0 =>
        \A i \in 1..Len(WrapInput) :
            ~exempt_line(WrapInput, i) =>
                /\ \A k \in 1..Len(wrap_out.pieces[i]) :
                      Len(wrap_out.pieces[i][k]) <= wrap_width
                /\ wrap_out.pieces[i] =
                      IF Len(WrapInput[i]) <= wrap_width THEN <<WrapInput[i]>>
                      ELSE break_at_last_space(WrapInput[i], wrap_width,
                                               continuation_indent(WrapInput[i]), TRUE)

\* Line i (1-based) lies in a fenced code block: from the opening fence to
\* the closing one, as find_code_fence_regions delimits the blocks.
in_fenced_block(ls, i) ==
    \E r \in DOMAIN find_code_fence_regions(ls) :
        /\ find_code_fence_regions(ls)[r].start_line <= i - 1
        /\ i - 1 <= find_code_fence_regions(ls)[r].end_line

heading_line(line) == starts_with(trim_start(line), <<"#">>)

table_row(line) ==
    contains(line, "|") /\ (is_separator_row(line) \/ starts_with(trim_start(line), <<"|">>))

\* C17: hard_wrap returns unchanged, whatever its length, every line that
\* lies inside a fenced code block, starts with a heading marker, or is a
\* table row, whatever the lines around it are.
C17_ExemptLinesUnchanged ==
    wrap_out.done /\ wrap_width > 0 =>
        \A i \in 1..Len(WrapInput) :
            (\/ in_fenced_block(WrapInput, i)
             \/ heading_line(WrapInput[i])
             \/ table_row(WrapInput[i]))
                => wrap_out.pieces[i] = <<WrapInput[i]>>

\* The width the table formatter must be given for its available content
\* width to be that of render_table: the width left of the blockquote prefix.
RenderEffectiveWidth == SatSub(tbl_width, tbl_bq * 2)

\* C18: for the same natural column widths and the same available content
\* width, the column widths render_table computes in the preview are those
\* try_format_table computes at save time, whether the table is expanded,
\* shrunk or left as it is.
C18_PreviewAndFormatterAgree ==
    tbl_fn = "render_table" =>
        tbl_out = format_col_widths(tbl_natural, RenderEffectiveWidth, overflow_checks)

\* render_table shrank a table of several columns inside a blockquote.
C18_Witness ==
    /\ tbl_fn = "render_table"
    /\ tbl_bq > 0
    /\ Len(tbl_natural) > 1
    /\ ~tbl_out.panicked
    /\ tbl_out.widths # tbl_natural
    /\ SumSeq(tbl_out.widths) < SumSeq(tbl_natural)

\* C19: laying out a document that consists only of a table with a header
\* row and n body rows yields exactly n + 2 lines, at every width.
C19_TableLineCount ==
    tbl_fn = "render_markdown" => Len(tbl_lines) = tbl_body_rows + 2

\* The text width of the frame being drawn, and whether render calls
\* reflow_content for it.
FrameTextWidth == text_width(chunks2(term), textarea.lines)

FrameReflows == FrameTextWidth > 0 /\ FrameTextWidth # last_wrap_width

\* C20: while the buffer has no unsaved edits, reflow_content(w) sets the
\* buffer to hard_wrap of the raw original content at width w, whatever
\* widths it was wrapped to before, and leaves the modified flag false.
C20_ReflowFromOriginal ==
    [][(EdRenderFrame /\ FrameReflows /\ ~modified) =>
           /\ textarea'.lines = buffer_lines(hard_wrap(original_content, FrameTextWidth))
           /\ ~modified']_vars

\* The number of characters other than spaces in a line.
non_spaces(line) == Cardinality({i \in 1..Len(line) : line[i] # SP})

\* The logical position of the cursor <<row, col>> in the text: the number
\* of characters other than spaces and line breaks before it.
RECURSIVE chars_before(_, _)
chars_before(ls, cursor) ==
    IF cursor[1] = 0 THEN non_spaces(SubSeq(ls[1], 1, cursor[2]))
    ELSE non_spaces(ls[1]) + chars_before(Tail(ls), <<cursor[1] - 1, cursor[2]>>)

\* The line under the cursor fits the text width or has no break point.
cursor_line_settled(ta, area) ==
    \/ Len(ta.lines[ta.cursor[1] + 1]) <= text_width(area, ta.lines)
    \/ rfind_space(SubSeq(ta.lines[ta.cursor[1] + 1], 1,
                          Min(text_width(area, ta.lines),
                              Len(ta.lines[ta.cursor[1] + 1])))) <= 0

\* C21: after a keystroke that makes the cursor's line exceed the text width
\* the incremental wrap splits the line until the line under the cursor fits
\* or has no break point, and the cursor is between the same two characters
\* of the text as it was after the keystroke, before the split.
C21_AutoWrapKeepsCursorPosition ==
    [][(KeyInput /\ Len(textarea'.history) > textarea.index + 1) =>
           /\ cursor_line_settled(textarea', content_area)
           /\ chars_before(textarea'.lines, textarea'.cursor)
                  = chars_before(textarea'.history[textarea.index + 1].after[1],
                                 textarea'.history[textarea.index + 1].after[2])]_vars

\* A line that starts with three backticks, and one with nothing after them.
backtick_fence(line) == starts_with(trim_start(line), Str3(BT))

bare_fence(line) ==
    /\ backtick_fence(line)
    /\ \A k \in 4..Len(trim_start(line)) : trim_start(line)[k] = SP

\* C22: find_code_fence_regions returns one region per opening fence, in
\* increasing order and non-overlapping, with start_line <= end_line < the
\* number of lines: every region starts at a fence line, every fence line
\* lies in a region, a region ends at the first closing fence after its
\* start, and a block with no closing fence ends at the last line index.
C22_OneRegionPerOpeningFence ==
    ~code_fence_dirty =>
        /\ \A r \in DOMAIN code_fence_regions :
              /\ code_fence_regions[r].start_line >= 0
              /\ code_fence_regions[r].start_line <= code_fence_regions[r].end_line
              /\ code_fence_regions[r].end_line < Len(WrapInput)
              /\ backtick_fence(WrapInput[code_fence_regions[r].start_line + 1])
              /\ r > 1 => code_fence_regions[r - 1].end_line
                              < code_fence_regions[r].start_line
              /\ \A i \in (code_fence_regions[r].start_line + 1)
                              ..(code_fence_regions[r].end_line - 1) :
                    ~bare_fence(WrapInput[i + 1])
              /\ \/ /\ code_fence_regions[r].start_line < code_fence_regions[r].end_line
                    /\ bare_fence(WrapInput[code_fence_regions[r].end_line + 1])
                 \/ code_fence_regions[r].end_line = Len(WrapInput) - 1
        /\ \A i \in 1..Len(WrapInput) :
              backtick_fence(WrapInput[i]) =>
                  \E r \in DOMAIN code_fence_regions :
                      /\ code_fence_regions[r].start_line <= i - 1
                      /\ i - 1 <= code_fence_regions[r].end_line

\* Two blocks were found, the second one with no closing fence.
C22_Witness ==
    /\ ~code_fence_dirty
    /\ Len(code_fence_regions) = 2
    /\ code_fence_regions[2].end_line = Len(WrapInput) - 1
    /\ ~bare_fence(WrapInput[Len(WrapInput)])

(***************************************************************************)
(* Claims about the preview's scrolling (checked under SpecImage).         *)
(***************************************************************************)
\* scroll_down's max_scroll for the content and the viewport of the latest
\* frame.
max_scroll == SatSub(content_height, viewport_height)

\* C26: in preview mode the scroll offset lies in
\* 0 .. max(0, content_height - viewport_height), whatever scroll keys,
\* wheel events, mode switches and resizes came before.
C26_ScrollOffsetInRange ==
    mode = "Preview" => (0 <= scroll_offset /\ scroll_offset <= max_scroll)

\* C30: a path whose decode-cache entry is a bitmap keeps a bitmap: no
\* message drained later replaces the entry with a failure.
C30_BitmapNeverReplacedByFailure ==
    [][\A p \in Paths :
          (Has(image_decode_cache, p) /\ Get(image_decode_cache, p) = "img")
              => (Has(image_decode_cache', p) /\ Get(image_decode_cache', p) = "img")]_vars

(***************************************************************************)
(* The preview's clickable links (preview.rs render, build_link_regions,   *)
(* url_at; renderer.rs TagEnd::Link).                                      *)
(***************************************************************************)
\* The most lines of a rendered document, and the size of the preview's area.
MaxLinkLines == 3

LinkCols == 3

LinkRows == 2

LinkArea == Rect(0, 2, LinkCols, LinkRows)

\* The lines render_markdown lays out: plain text, a link's text followed by
\* other text, or other text followed by a link's text that ends the line.
LineKinds == {"plain", "link", "tail"}

links_before(kinds, i) == Cardinality({j \in 1..i : kinds[j] # "plain"})

\* The cells of the lines: the k-th link's text carries link_style.
link_cells(kinds) ==
    [i \in 1..Len(kinds) |->
        CASE kinds[i] = "plain" -> <<0, 0, 0>>
          [] kinds[i] = "link" -> <<links_before(kinds, i), links_before(kinds, i), 0>>
          [] kinds[i] = "tail" -> <<0, links_before(kinds, i), links_before(kinds, i)>>]

\* rendered.link_urls: TagEnd::Link pushes the destination of each link, in
\* document order; the k-th link's destination is written k.
link_urls_of(lines) ==
    LET n == Cardinality({i \in 1..Len(lines) : \E x \in 1..Len(lines[i]) : lines[i][x] # 0})
    IN  [k \in 1..n |-> k]

\* Paragraph::scroll((scroll_offset, 0)) rendered into the area: row r shows
\* line scroll_offset + r, cut at the area's width.
paint(lines, offset, area) ==
    [r \in 1..area.height |->
        [x \in 1..area.width |->
            IF offset + r <= Len(lines) /\ x <= Len(lines[offset + r])
            THEN lines[offset + r][x] ELSE 0]]

\* build_link_regions, the scan of one row from column x on: a run of
\* link-styled cells ends at the first cell without the style or at the end
\* of the row.
RECURSIVE row_runs(_, _, _, _, _)
row_runs(cells, y, x, in_link, x_start) ==
    IF x > Len(cells)
    THEN IF in_link THEN <<[y |-> y, x_start |-> x_start, x_end |-> Len(cells)]>>
         ELSE <<>>
    ELSE IF cells[x] # 0 /\ ~in_link THEN row_runs(cells, y, x + 1, TRUE, x - 1)
    ELSE IF cells[x] = 0 /\ in_link
         THEN <<[y |-> y, x_start |-> x_start, x_end |-> x - 1]>>
                  \o row_runs(cells, y, x + 1, FALSE, 0)
    ELSE row_runs(cells, y, x + 1, in_link, x_start)

RECURSIVE area_runs(_, _)
area_runs(rows, r) ==
    IF r > Len(rows) THEN <<>>
    ELSE row_runs(rows[r], r - 1, 1, FALSE, 0) \o area_runs(rows, r + 1)

\* build_link_regions: the runs in scan order, the i-th run paired with
\* link_urls[i] while there are URLs left; columns and rows are those of
\* the screen.
build_link_regions(rows, area, link_urls) ==
    LET runs == area_runs(rows, 1)
        n == IF Len(runs) < Len(link_urls) THEN Len(runs) ELSE Len(link_urls)
    IN  [i \in 1..n |->
            [y |-> area.y + runs[i].y,
             x_start |-> area.x + runs[i].x_start,
             x_end |-> area.x + runs[i].x_end,
             url |-> link_urls[i]]]

\* url_at: the URL of the first region that holds the position.
url_at(links, x, y) ==
    LET hits == {i \in 1..Len(links) :
                    links[i].y = y /\ x >= links[i].x_start /\ x < links[i].x_end}
    IN  IF hits = {} THEN {}
        ELSE {links[CHOOSE i \in hits : \A j \in hits : i <= j].url}

RECURSIVE LinkDocs(_)
LinkDocs(n) ==
    IF n = 0 THEN {<<>>}
    ELSE LinkDocs(n - 1)
         \cup {Append(d, k) : d \in {e \in LinkDocs(n - 1) : Len(e) = n - 1},
                              k \in LineKinds}

InitLinks ==
    /\ MdIdle
    /\ ModalIdle
    /\ TableIdle
    /\ WrapIdle
    /\ AppNew
    /\ ImageNew
    /\ EditorIdle
    /\ term = [width |-> MaxTermCols, height |-> MaxTermRows]
    /\ doc = <<>>
    /\ disk = {}
    /\ picker = FALSE
    /\ status_message = StartHint
    /\ frame_buf = NoFrame
    /\ \E kinds \in LinkDocs(MaxLinkLines) : link_lines = link_cells(kinds)
    /\ link_painted = <<>>
    /\ click_links = <<>>

\* preview::render: the layout's line count is stored, the paragraph is
\* painted at the scroll offset and the clickable regions are rebuilt.
LinkRender ==
    /\ content_height' = Len(link_lines)
    /\ link_painted' = paint(link_lines, scroll_offset, LinkArea)
    /\ click_links' = build_link_regions(paint(link_lines, scroll_offset, LinkArea),
                                         LinkArea, link_urls_of(link_lines))
    /\ UNCHANGED <<doc, disk, scroll_offset, file_cache, image_decode_cache,
                   resize_cache, last_area, image_rx, decoding_in_flight, picker,
                   protocol_cache, last_gfx_paths, render_workers, paste_workers,
                   pastes, last_render>>
    /\ UNCHANGED <<status_message, frame_buf, link_lines>>
    /\ UNCHANGED <<appVars, tblVars, mdVars, modalVars, wrapVars, edVars>>

\* handle_preview_key, Up and Down
LinkScroll ==
    /\ \/ scroll_offset' = scroll_up(scroll_offset, 1)
       \/ scroll_offset' = scroll_down(scroll_offset, 1, content_height,
                                       LinkArea.height)
    /\ UNCHANGED <<doc, disk, content_height, file_cache, image_decode_cache,
                   resize_cache, last_area, image_rx, decoding_in_flight, picker,
                   protocol_cache, last_gfx_paths, render_workers, paste_workers,
                   pastes, last_render>>
    /\ UNCHANGED <<appVars, tblVars, mdVars, viewVars, modalVars, wrapVars, edVars>>

NextLinks == LinkRender \/ LinkScroll

SpecLinks == InitLinks /\ [][NextLinks]_vars

\* The link whose text is painted at a position of the screen, 0 for none.
painted_link(x, y) == link_painted[y - LinkArea.y + 1][x - LinkArea.x + 1]

\* C29: every clickable region built after painting carries the URL of the
\* link whose text is painted in its cells, and url_at answers that URL for
\* each of them.
C29_RegionsCarryPaintedLink ==
    \A i \in 1..Len(click_links) :
        \A x \in click_links[i].x_start .. click_links[i].x_end - 1 :
            /\ painted_link(x, click_links[i].y) = click_links[i].url
            /\ url_at(click_links, x, click_links[i].y) = {click_links[i].url}

\* ---------------------------------------------------------------------
\* The incremental wrap as a loop: the editor with indented lines, in a
\* terminal wide enough for the text width to stay above the indentation
\* while the line-number gutter grows with the number of lines.

MaxLoopCols == 9

LoopTermSizes ==
    {[width |-> MaxLoopCols - d, height |-> MaxTermRows] : d \in 0..1}

LoopDocs ==
    {<<"a", "a", "a">>,
     <<"a", SP, "a", "a">>,
     <<SP, "a", "a", "a">>,
     <<SP, SP, "a", "a">>,
     <<SP, SP, "a", "a", "a">>,
     <<"-", SP, "a", "a">>,
     <<"-", SP, "a", "a", "a">>,
     <<SP, SP, "a", "a", "a", "a">>,
     <<"1", ".", SP, "a", "a">>,
     <<"a", "a", NL, SP, SP, "a", "a", "a">>}

\* CursorMove::End
move_end(ta) ==
    [ta EXCEPT !.cursor = <<ta.cursor[1], Len(ta.lines[ta.cursor[1] + 1])>>]

\* CursorMove::Down: the next row, the column clamped to its length.
move_down(ta) ==
    IF ta.cursor[1] + 1 >= Len(ta.lines) THEN ta
    ELSE jump(ta, ta.cursor[1] + 1, ta.cursor[2])

\* handle_editor_key, the End or the Down key: textarea.input(input) moves
\* the cursor, then update_modified and auto_wrap_line run as for every key
\* passed through to the TextArea.
KeyMove ==
    /\ loop_pc = "events"
    /\ mode = "Editor"
    /\ edits < MaxEdits
    /\ \E moved \in {move_end(textarea), move_down(textarea)} :
        /\ textarea' = auto_wrap_line(moved, content_area, WRAP_LIMIT)
        /\ modified' = update_modified(moved, wrapped_original)
    /\ code_fence_dirty' = TRUE
    /\ UNCHANGED <<original_content, wrapped_original, last_wrap_width,
                   should_quit, file_content, write_failed, code_fence_regions,
                   code_fence_highlights, syntax_set, theme_set, warm_pc, overlay,
                   edits>>
    /\ UNCHANGED <<appVars, tblVars, mdVars, viewVars, modalVars, wrapVars, imgVars>>

\* The editor after App::new and the first render_frame: the content area
\* is laid out and the buffer is the file hard-wrapped to the text width.
InitLoop ==
    /\ MdIdle
    /\ ModalIdle
    /\ ViewIdle
    /\ TableIdle
    /\ WrapIdle
    /\ ImageNew
    /\ doc = <<>>
    /\ disk = {}
    /\ picker = FALSE
    /\ term \in LoopTermSizes
    /\ loop_pc = "events"
    /\ mode = "Editor"
    /\ content_area = chunks2(term)
    /\ viewport_height = chunks2(term).height
    /\ \E content \in LoopDocs :
        /\ file_content = content
        /\ original_content = content
        /\ last_wrap_width = text_width(chunks2(term), buffer_lines(content))
        /\ wrapped_original = hard_wrap(content, last_wrap_width)
        /\ textarea = reflow_content(TextArea(buffer_lines(content)), FALSE,
                                     content, last_wrap_width)
    /\ modified = update_modified(textarea, wrapped_original)
    /\ should_quit = FALSE
    /\ code_fence_regions = find_code_fence_regions(buffer_lines(original_content))
    /\ code_fence_highlights = <<>>
    /\ code_fence_dirty = TRUE
    /\ write_failed = FALSE
    /\ syntax_set = "uninit"
    /\ theme_set = "uninit"
    /\ warm_pc = "syntax_set"
    /\ overlay = NoOverlay
    /\ edits = 0

NextLoop == KeyMove \/ KeyInput

SpecLoop == InitLoop /\ [][NextLoop]_vars


\* C31: for a line shorter than 500 characters the incremental wrap stops
\* because the line under the cursor fits or has no break point (every
\* iteration shortens that line), never because the limit of 500
\* iterations was reached.
C31_WrapStopsBeforeLimit ==
    [][(KeyInput /\ \A i \in DOMAIN textarea.lines :
                        Len(textarea.lines[i]) < WRAP_LIMIT)
           => wrap_breaks(textarea', content_area)]_vars

\* ---------------------------------------------------------------------
\* The rename input with a character of more than one byte.

Utf8Keys == {"CtrlT", "Esc", "Backspace", "Delete", "Left", "Right", "Home",
             "End", "a", "eacute"}

Utf8Pastes == {<<"eacute">>, <<"eacute", "a">>}

RenameKey == \E k \in Utf8Keys : handle_key(k)

RenamePaste == \E text \in Utf8Pastes : handle_paste(text)

InitRename == InitModal

NextRename == EdRenderFrame \/ RenameKey \/ RenamePaste

SpecRename == InitRename /\ [][NextRename]_vars

\* C32: after any sequence of key and paste events of the rename input the
\* rename cursor is at most the length of the rename buffer and lies on a
\* character boundary of it, so that no insert or remove at the cursor
\* panics.
C32_RenameCursorOnBoundary ==
    renaming => /\ rename_cursor <= Len(rename_buf)
                /\ is_char_boundary(rename_buf, rename_cursor)

(***************************************************************************)
(* render_markdown as a function of the events of the parser               *)
(* (renderer.rs render_markdown, word_wrap, flush_line, push_bq_prefix,    *)
(* push_blank_line).                                                       *)
(***************************************************************************)
\* The widest render width and the largest declared start of a list.
MaxMdWidth == 8

MaxListStart == 9

\* U+2502, the bar of the quote prefix, and U+2022, the bullet: one column
\* each.
BAR == "bar"

BULLET == "bullet"

\* A span: its text and the role its style gives it (colours are not
\* followed).
Span(content, style) == [content |-> content, style |-> style]

\* The sum of Span::width over the spans.
RECURSIVE spans_width(_)
spans_width(spans) ==
    IF spans = <<>> THEN 0 ELSE Len(Head(spans).content) + spans_width(Tail(spans))

\* The quote prefix repeated `depth` times.
RECURSIVE quote_prefix(_)
quote_prefix(depth) == IF depth = 0 THEN <<>> ELSE <<BAR, SP>> \o quote_prefix(depth - 1)

\* push_bq_prefix
push_bq_prefix(spans, depth) ==
    IF depth > 0 /\ spans = <<>> THEN <<Span(quote_prefix(depth), "quote")>> ELSE spans

\* lines.push: a line is its spans, with the blockquote depth at which it
\* was pushed.
emit(r, spans) ==
    [r EXCEPT !.lines = Append(@, [spans |-> spans, depth |-> r.blockquote_depth])]

\* flush_line
flush_line(r) ==
    IF r.current_spans = <<>> THEN r
    ELSE [emit(r, r.current_spans) EXCEPT !.current_spans = <<>>]

\* push_blank_line
push_blank_line(r) ==
    emit(r, IF r.blockquote_depth > 0
            THEN <<Span(quote_prefix(r.blockquote_depth), "quote")>> ELSE <<>>)

\* current_style
current_style(r) == r.style_stack[Len(r.style_stack)]

\* style_extensions for a text without ==, ^ or ~ markers.
style_extensions(text, style) == IF text = <<>> THEN <<>> ELSE <<Span(text, style)>>

\* word_wrap for a text that follows spans of current_col columns.
word_wrap_at(text, max_width, current_col) ==
    IF Len(text) <= SatSub(max_width, current_col) THEN <<text>>
    ELSE IF wrap_words(split_inclusive(text, <<>>), max_width, <<>>, current_col) = <<>>
    THEN <<text>>
    ELSE wrap_words(split_inclusive(text, <<>>), max_width, <<>>, current_col)

\* Event::Text, the loop over the chunks of a wrapped text: a flush and a
\* quote prefix between two chunks.
RECURSIVE place_chunks(_, _, _)
place_chunks(r, chunks, style) ==
    LET added == [r EXCEPT !.current_spans = @ \o style_extensions(Head(chunks), style)]
    IN  IF Len(chunks) = 1 THEN added
        ELSE place_chunks([flush_line(added) EXCEPT
                               !.current_spans = push_bq_prefix(<<>>, r.blockquote_depth)],
                          Tail(chunks), style)

\* Event::Text outside code blocks and tables.
text_event(r, text, width) ==
    LET pre == [r EXCEPT !.current_spans = push_bq_prefix(@, r.blockquote_depth)]
        wrapped == word_wrap_at(text, width, spans_width(pre.current_spans))
    IN  IF Len(wrapped) <= 1
        THEN [pre EXCEPT !.current_spans = @ \o style_extensions(text, current_style(r))]
        ELSE place_chunks(pre, wrapped, current_style(r))

\* format!("{}", n) for a list counter.
RECURSIVE digits(_)
digits(n) ==
    LET d == <<"0", "1", "2", "3", "4", "5", "6", "7", "8", "9">>
    IN  IF n < 10 THEN <<d[n + 1]>> ELSE digits(n \div 10) \o <<d[(n % 10) + 1]>>

\* A variant of the counter's step that leaves the counter where it is.
counter_stuck(n) == n

\* Tag::Item, the counter of the list after an item numbered n.
counter_next(n) == n + 1

\* Tag::Item: the bullet of an unordered item, the counter of an ordered
\* one, after 2 blanks per level of nesting; the counter is stepped.
item_start(r) ==
    LET f == flush_line(r)
        pre == push_bq_prefix(f.current_spans, f.blockquote_depth)
        depth == Len(f.list_stack)
        indent == Spaces(2 * SatSub(depth, 1))
        ordered == depth > 0 /\ f.list_stack[depth] # {}
        n == CHOOSE c \in f.list_stack[depth] : TRUE
    IN  IF ordered
        THEN [f EXCEPT !.current_spans =
                           pre \o <<Span(indent \o digits(n) \o <<".", SP>>, "item")>>,
                       !.list_stack[depth] = {counter_next(n)}]
        ELSE [f EXCEPT !.current_spans = pre \o <<Span(indent \o <<BULLET, SP>>, "item")>>]

\* Event::Rule
rule_event(r, width) ==
    LET avail == SatSub(width, r.blockquote_depth * 2)
        rule == [i \in 1..avail |-> "-"]
        prefix == IF r.blockquote_depth > 0
                  THEN <<Span(quote_prefix(r.blockquote_depth), "quote")>> ELSE <<>>
    IN  push_blank_line(emit(r, prefix \o <<Span(rule, "border")>>))

\* An event of the parser: Start(tag), End(tag), Text, SoftBreak or Rule;
\* `start` is the declared start of a list, `text` the text of a Text.
Ev(ev, tag, start, text) == [ev |-> ev, tag |-> tag, start |-> start, text |-> text]

\* The body of the loop `for event in parser`.
apply_event(r, e, width) ==
    CASE e.ev = "Start" /\ e.tag = "BlockQuote" ->
            [r EXCEPT !.blockquote_depth = @ + 1]
      [] e.ev = "Start" /\ e.tag = "List" ->
            [(IF r.list_stack # <<>> THEN flush_line(r) ELSE r)
                EXCEPT !.list_stack = Append(@, e.start)]
      [] e.ev = "Start" /\ e.tag = "Item" -> item_start(r)
      [] e.ev = "Start" /\ e.tag = "Strong" ->
            [r EXCEPT !.style_stack = Append(@, "bold")]
      [] e.ev = "End" /\ e.tag = "Strong" ->
            [r EXCEPT !.style_stack = SubSeq(@, 1, Len(@) - 1)]
      [] e.ev = "End" /\ e.tag = "BlockQuote" ->
            [r EXCEPT !.blockquote_depth = SatSub(@, 1)]
      [] e.ev = "End" /\ e.tag = "List" ->
            LET popped == [r EXCEPT !.list_stack = SubSeq(@, 1, Len(@) - 1)]
            IN  IF popped.list_stack = <<>> THEN push_blank_line(popped) ELSE popped
      [] e.ev = "End" /\ e.tag = "Item" -> flush_line(r)
      [] e.ev = "End" /\ e.tag = "Paragraph" -> push_blank_line(flush_line(r))
      [] e.ev = "Text" -> text_event(r, e.text, width)
      [] e.ev = "SoftBreak" -> flush_line(r)
      [] e.ev = "Rule" -> rule_event(r, width)
      [] OTHER -> r

\* The loop `for event in parser`.  The test on the lines has the state
\* after an event evaluated before the next event is taken, which keeps the
\* evaluation of the recursion shallow.
RECURSIVE apply_events(_, _, _)
apply_events(r, events, width) ==
    IF events = <<>> \/ Len(r.lines) < 0 THEN r
    ELSE apply_events(apply_event(r, Head(events), width), Tail(events), width)

\* render_markdown: the lines after the last event and a final flush.
render_events(events, width) ==
    flush_line(apply_events([lines |-> <<>>,
                             current_spans |-> <<>>,
                             style_stack |-> <<"text">>,
                             blockquote_depth |-> 0,
                             list_stack |-> <<>>],
                            events, width)).lines

\* The events of the parser for the blocks and inlines of a document.
Txt(text) == <<Ev("Text", "", {}, text)>>

Strong(inlines) ==
    <<Ev("Start", "Strong", {}, <<>>)>> \o inlines \o <<Ev("End", "Strong", {}, <<>>)>>

Para(inlines) ==
    <<Ev("Start", "Paragraph", {}, <<>>)>> \o inlines
        \o <<Ev("End", "Paragraph", {}, <<>>)>>

Quote(blocks) ==
    <<Ev("Start", "BlockQuote", {}, <<>>)>> \o blocks
        \o <<Ev("End", "BlockQuote", {}, <<>>)>>

Item(content) ==
    <<Ev("Start", "Item", {}, <<>>)>> \o content \o <<Ev("End", "Item", {}, <<>>)>>

\* A list: `start` is {} for a bullet list, {s} for one numbered from s.
List(start, items) ==
    <<Ev("Start", "List", start, <<>>)>> \o items \o <<Ev("End", "List", {}, <<>>)>>

SoftBreak == <<Ev("SoftBreak", "", {}, <<>>)>>

Rule == <<Ev("Rule", "", {}, <<>>)>>

\* The texts "a", "aa", "aa " and "aa bb cc".
A1 == <<"a">>

A2 == <<"a", "a">>

A2S == <<"a", "a", SP>>

Phrase == <<"a", "a", SP, "b", "b", SP, "c", "c">>

\* The documents rendered, as the parser reports them: paragraphs of one
\* and of several inline spans, quotes, bullet lists and numbered lists,
\* nested in each other.
MdDocs ==
    {Para(Txt(Phrase)),
     Para(Txt(A2S) \o Strong(Txt(A2))),
     Para(Txt(A2) \o SoftBreak \o Txt(A2)),
     Quote(Para(Txt(Phrase))),
     Quote(Quote(Para(Txt(A2)))),
     Quote(Rule),
     Quote(List({}, Item(Txt(A2)))),
     List({}, Item(Txt(Phrase))),
     List({}, Item(Quote(Para(Txt(A2))))),
     List({}, Item(Txt(A1) \o List({MaxListStart}, Item(Txt(A1)) \o Item(Txt(A1)))))}
    \cup {List({s}, Item(Txt(A1)) \o Item(Txt(A1)) \o Item(Txt(A1))) : s \in {0, 1, 3}}
    \cup {List({s}, Item(Txt(A1) \o List({t}, Item(Txt(A1)) \o Item(Txt(A1))))
                    \o Item(Txt(A1) \o List({}, Item(Txt(A1))))
                    \o Item(Txt(A1))) : s \in {1, 3}, t \in {1, 5}}

MdWidths == 3..MaxMdWidth

InitRender ==
    /\ md_events \in MdDocs
    /\ md_width \in MdWidths
    /\ md_out = NoLayout
    /\ ViewIdle
    /\ ModalIdle
    /\ TableIdle
    /\ WrapIdle
    /\ AppNew
    /\ ImageNew
    /\ term = [width |-> MaxTermCols, height |-> MaxTermRows]
    /\ doc = <<>>
    /\ disk = {}
    /\ picker = FALSE
    /\ EditorIdle

\* render_markdown(content, width), content being what the parser reports
\* as md_events.
RenderMarkdown ==
    /\ ~md_out.done
    /\ md_out' = [done |-> TRUE, lines |-> render_events(md_events, md_width)]
    /\ UNCHANGED <<md_events, md_width>>
    /\ UNCHANGED <<tblVars, appVars, imgVars, edVars, wrapVars, modalVars, viewVars>>

NextRender == RenderMarkdown

SpecRender == InitRender /\ [][NextRender]_vars

\* The text of a line and its display width.
line_text(line) == Flatten([i \in DOMAIN line.spans |-> line.spans[i].content])

\* The longest word of the texts of the events, blanks not counted.
longest_word(events) ==
    LET lens == {Len(trim(w)) : w \in UNION {{split_inclusive(events[i].text, <<>>)[k] :
                                                k \in DOMAIN split_inclusive(events[i].text, <<>>)} :
                                             i \in DOMAIN events}}
    IN  IF lens = {} THEN 0 ELSE CHOOSE m \in lens : \A n \in lens : n <= m

\* C33: every line laid out for paragraph text whose words are each shorter
\* than the width has a display width of at most the width, inside
\* blockquotes and list items and for lines made of several inline spans
\* too.
C33_LinesFitWidth ==
    (md_out.done /\ longest_word(md_events) < md_width)
        => \A i \in DOMAIN md_out.lines : Len(line_text(md_out.lines[i])) <= md_width

\* C34: every line pushed while the blockquote depth is d > 0 starts with
\* the quote prefix repeated d times, whatever block it belongs to.
C34_QuotedLinesCarryPrefix ==
    md_out.done
        => \A i \in DOMAIN md_out.lines :
               starts_with(line_text(md_out.lines[i]),
                           quote_prefix(md_out.lines[i].depth))

is_tag(e, ev, tag) == e.ev = ev /\ e.tag = tag

\* The lists started before event i with as many lists started as ended
\* between their start and i.
balanced_lists(events, i) ==
    {j \in 1..(i - 1) :
        /\ is_tag(events[j], "Start", "List")
        /\ Cardinality({p \in (j + 1)..(i - 1) : is_tag(events[p], "Start", "List")})
             = Cardinality({p \in (j + 1)..(i - 1) : is_tag(events[p], "End", "List")})}

\* The list the item at event i belongs to: the latest of them.
open_list(events, i) ==
    CHOOSE j \in balanced_lists(events, i) : \A q \in balanced_lists(events, i) : q <= j

\* k for the k-th item of its list.
item_rank(events, i) ==
    Cardinality({p \in 1..i : /\ is_tag(events[p], "Start", "Item")
                              /\ open_list(events, p) = open_list(events, i)})

\* The label the item at event i is to carry.
expected_label(events, i) ==
    IF events[open_list(events, i)].start = {} THEN <<BULLET, SP>>
    ELSE digits((CHOOSE s \in events[open_list(events, i)].start : TRUE)
                + item_rank(events, i) - 1) \o <<".", SP>>

item_indices(events) ==
    SelectSeq([i \in 1..Len(events) |-> i],
              LAMBDA i : is_tag(events[i], "Start", "Item"))

\* The labels laid out, in the order of the lines, without their indent.
rendered_labels(lines) ==
    LET spans == SelectSeq(Flatten([i \in DOMAIN lines |-> lines[i].spans]),
                           LAMBDA s : s.style = "item")
    IN  [k \in 1..Len(spans) |-> trim_start(spans[k].content)]

\* C39: the k-th item of an ordered list whose declared start is s is
\* labelled s + k - 1, and every list has its own counter: a list nested in
\* an item neither resets nor advances the numbering of the list around it.
C39_ItemsNumberedFromStart ==
    md_out.done
        => rendered_labels(md_out.lines)
             = [k \in 1..Len(item_indices(md_events)) |->
                    expected_label(md_events, item_indices(md_events)[k])]

\* An ordered list was laid out whose second or later item follows a list
\* nested in an earlier item.
C39_Witness ==
    /\ md_out.done
    /\ \E i \in DOMAIN md_events :
        /\ is_tag(md_events[i], "Start", "Item")
        /\ md_events[open_list(md_events, i)].start # {}
        /\ item_rank(md_events, i) >= 2
        /\ \E p \in open_list(md_events, i)..i :
               /\ is_tag(md_events[p], "End", "List")
               /\ md_events[p - 1].ev = "End"
    /\ Len(rendered_labels(md_out.lines)) >= 4

\* ---------------------------------------------------------------------
\* The help modal and the input events (handle_event).

\* handle_event: a key goes to handle_key, a paste to handle_paste, a left
\* click on the filename to handle_mouse.
InputEvent == ModalKey \/ ModalPaste \/ ClickFilename

\* C35: while the help modal is shown, no input event (key, mouse click or
\* wheel, paste) changes the mode, the rename state or the content of the
\* buffer.
C35_HelpSwallowsInput ==
    [][(show_help /\ InputEvent)
           => UNCHANGED <<mode, renaming, rename_buf, rename_cursor, textarea.lines>>]_vars

\* ---------------------------------------------------------------------
\* hard_wrap against find_code_fence_regions.

\* The regions find_code_fence_regions returns for the lines hard_wrap is
\* given.
InputRegions == find_code_fence_regions(WrapInput)

\* C36: hard_wrap and find_code_fence_regions agree on what is fenced code:
\* no line inside a region returned by find_code_fence_regions is split or
\* altered by hard_wrap.
C36_FencedLinesKept ==
    (wrap_out.done /\ wrap_width > 0)
        => \A r \in DOMAIN InputRegions :
               \A i \in InputRegions[r].start_line..InputRegions[r].end_line :
                   wrap_out.pieces[i + 1] = <<WrapInput[i + 1]>>

\* ---------------------------------------------------------------------
\* The background decodes, with their scheduling.

\* The main loop calls render_frame, and with it tick, again and
\* again (main.rs: at least every 100 ms), and the thread spawned for a path
\* runs to its tx.send.
\* A frame, with its tick, while a decoded image waits in the channel: the
\* tick drains the channel.
Tick == image_rx # <<>> /\ image_rx' = <<>> /\ RenderFrame

SpecImageLive ==
    /\ InitImage
    /\ [][NextImage]_vars
    /\ WF_vars(Tick)
    /\ \A p \in Paths : WF_vars(DecodeWorker(p))

\* C37: every path added to decoding_in_flight is eventually removed from
\* it and given an entry in image_decode_cache, provided its worker thread
\* terminates and ticks keep occurring.
C37_InFlightEventuallyDecoded ==
    \A p \in Paths :
        (p \in decoding_in_flight)
            ~> (p \notin decoding_in_flight /\ Has(image_decode_cache, p))

\* With no image pasted, a path decoded by the thread render spawned has
\* left decoding_in_flight and has its entry in image_decode_cache.
C37_Witness ==
    /\ pastes = 0
    /\ \E p \in Paths :
        /\ p \notin decoding_in_flight
        /\ Has(image_decode_cache, p)
        /\ render_workers[p] = 0

\* ---------------------------------------------------------------------
\* The rectangles the images are drawn in.

\* C38: every image draw rectangle lies inside the render area, and the
\* rows clipped from the top plus the rectangle's height never exceed the
\* line count of the image's placeholder.
C38_DrawRectInsideArea ==
    \A i \in DOMAIN last_render.jobs :
        LET job == last_render.jobs[i]
        IN  /\ job.rect.x >= last_area.x
            /\ job.rect.y >= last_area.y
            /\ job.rect.x + job.rect.width <= last_area.x + last_area.width
            /\ job.rect.y + job.rect.height <= last_area.y + last_area.height
            /\ job.y_offset + job.rect.height <= job.line_count

\* An image was drawn with rows clipped from its top.
C38_Witness ==
    \E i \in DOMAIN last_render.jobs :
        /\ last_render.jobs[i].y_offset > 0
        /\ last_render.jobs[i].rect.height > 0

====
